---- MODULE Spec2Model ----
(***************************************************************************)
(* A state-machine model of the playback engine: IterablePlayer (the       *)
(* cooperative run loop, its state handlers, tick, the debounced emitter), *)
(* and next to it TopicAliasingPlayer, the MessagePipeline's player        *)
(* listener, PlayerProblemManager and the useIndexedDbRecents hook, each   *)
(* with its own variable and its own specifications.                       *)
(*                                                                         *)
(* JavaScript runs every synchronous stretch of code to completion.  The   *)
(* run loop's position `pc` is therefore either an await point, "off" (no  *)
(* run loop is active) or one of the internal positions of SyncPcs, and no *)
(* public method, timer or promise resolution is taken while pc is in      *)
(* SyncPcs.  Times are integers; an undefined value is None.               *)
(***************************************************************************)
EXTENDS Integers, Sequences, FiniteSets, TLC

\* ------------------------------------------------------------- bounds
EndTime == 4      \* the sources end at this time (they start at 1)
MaxRange == 2     \* largest read window of one tick, in time units
MaxCalls == 2     \* public method calls after setListener
MaxFaults == 1    \* rejections the source may produce

None == 0 - 1

\* SEEK_ON_START_NS, in time units
SEEK_ON_START == 1

Topics == {"a", "b"}
PreloadTypes == {"partial", "full"}
Speeds == {1, 2}
\* the times seekPlayback and playUntil are called with
SeekTimes == {0, 3, EndTime + 1}
UntilTimes == {2, EndTime + 1}

\* ------------------------------------------------------------- helpers
Min(a, b) == IF a < b THEN a ELSE b

\* a time used as it is given, not brought inside the bounds
UnclampedTime(t, lo, hi) == t

\* clampTime(time, start, end)
ClampTime(t, lo, hi) == IF lo > t THEN lo ELSE IF hi < t THEN hi ELSE t

RECURSIVE SortedSeq(_)
SortedSeq(S) ==
  IF S = {} THEN <<>>
  ELSE LET m == CHOOSE x \in S : \A y \in S : x <= y
       IN <<m>> \o SortedSeq(S \ {m})

\* ------------------------------------------------------------- the source
MsgEvt(t, tp) == [type |-> "message-event", time |-> t, topic |-> tp, conn |-> 0]
StampAt(t) == [type |-> "stamp", time |-> t, topic |-> "", conn |-> 0]
ProblemAt(t, c) == [type |-> "problem", time |-> t, topic |-> "", conn |-> c]

\* What IIterableSource.initialize() resolves with, and the results the
\* source's iterators yield, in receiveTime order inside [start, end].  A
\* stamp says that every later result is after it.
SourceA ==
  [start |-> 1, end |-> EndTime,
   topics |-> << <<"a", "X">>, <<"b", "Y">> >>,
   initProblems |-> 0,
   tooFarApart |-> FALSE,
   items |-> << MsgEvt(1, "a"), MsgEvt(2, "b"), MsgEvt(3, "a"), MsgEvt(EndTime, "a") >>]

SourceB ==
  [start |-> 1, end |-> EndTime,
   topics |-> << <<"a", "X">>, <<"a", "Z">>, <<"b", "Y">> >>,
   initProblems |-> 1,
   tooFarApart |-> TRUE,
   items |-> << ProblemAt(1, 1), MsgEvt(2, "a"), StampAt(3), MsgEvt(EndTime, "b"),
                MsgEvt(EndTime, "a") >>]

Sources == {SourceA, SourceB}

\* TopicSelection maps are sets of <<topic, preloadType>> with one entry per topic.
\* The subscription lists setSubscriptions is called with:
SubLists ==
  { << <<"a", "partial">> >>,
    << <<"a", "full">>, <<"a", "partial">> >>,
    << <<"a", "partial">>, <<"b", "partial">> >> }

\* new Map(subscriptions.map(s => [s.topic, s])): the last entry of a topic wins
AllTopicsOf(subs) ==
  { subs[i] : i \in { j \in 1..Len(subs) :
                        \A k \in (j+1)..Len(subs) : subs[k][1] # subs[j][1] } }

\* new Map(filterMap(subscriptions, s => s.preloadType === "full" ? ... ))
PreloadTopicsOf(subs) ==
  { subs[i] : i \in { j \in 1..Len(subs) :
                        /\ subs[j][2] = "full"
                        /\ \A k \in (j+1)..Len(subs) :
                             ~(subs[k][1] = subs[j][1] /\ subs[k][2] = "full") } }

TopicNames(sel) == { e[1] : e \in sel }

\* ------------------------------------------------------------- iterators
NoIterator == [ex |-> FALSE, topics |-> {}, sel |-> 0, from |-> 0, pos |-> 0, closed |-> FALSE]

\* bufferedSource.messageIterator({topics, start})
MessageIterator(topics, sel, from) ==
  [ex |-> TRUE, topics |-> topics, sel |-> sel, from |-> from, pos |-> 1, closed |-> FALSE]

Visible(x, it) ==
  /\ x.time >= it.from
  /\ x.type = "message-event" => x.topic \in it.topics

\* index of the result the iterator's next() resolves with; 0 when it is done
IterNextIdx(items, it) ==
  LET C == { i \in it.pos..Len(items) : Visible(items[i], it) }
  IN IF it.closed \/ C = {} THEN 0 ELSE CHOOSE i \in C : \A j \in C : i <= j

\* getBackfillMessages({topics, time}): the last message at or before time, per topic
BackfillMessages(items, topics, t) ==
  SortedSeq({ i \in 1..Len(items) :
                /\ items[i].type = "message-event"
                /\ items[i].topic \in topics
                /\ items[i].time <= t
                /\ \A j \in (i+1)..Len(items) :
                     ~(/\ items[j].type = "message-event"
                       /\ items[j].topic = items[i].topic
                       /\ items[j].time <= t) })

\* ------------------------------------------------------------- state
VARIABLES
  \* IterablePlayer fields
  state, nextState, runningState, isPlaying, listener, speed, start, end,
  lastTickMillis, lastSeekEmitTime, providerTopics, allTopics, allTopicsId,
  preloadTopics, messages, hasError, lastRangeMillis, lastMessageEvent, lastStamp,
  seekTarget, presence, currentTime, problems, abort, playbackIterator, blockLoader,
  untilTime, isClosed,
  \* debouncePromise(emitStateImpl)
  emitCalling, emitPending,
  \* the run loop: its position and the locals its handlers hold across awaits
  pc, tickEnd, msgEvents, timer, targetTime, playAllTopics, awaited, aborted,
  \* the environment
  src, blockLoading, calls, faults,
  \* history
  activeLoops, closeStarted, lastReq, reqs, fx, call, inListener, liveIters, obs,
  seeks, delivered, logging,
  \* TopicAliasingPlayer: its fields, and what its last step did
  alias,
  \* a PlayerProblemManager: its fields, and what its last call did and returned
  manager,
  \* the MessagePipeline's player listener: the variables of its closure
  pipeline,
  \* a component that uses useIndexedDbRecents, and the IndexedDB store
  recentsStore

playerVars ==
  << state, nextState, runningState, isPlaying, listener, speed, start, end,
     lastTickMillis, lastSeekEmitTime, providerTopics, allTopics, allTopicsId,
     preloadTopics, messages, hasError, lastRangeMillis, lastMessageEvent, lastStamp,
     seekTarget, presence, currentTime, problems, abort, playbackIterator, blockLoader,
     untilTime, isClosed, emitCalling, emitPending,
     pc, tickEnd, msgEvents, timer, targetTime, playAllTopics, awaited, aborted,
     src, blockLoading, calls, faults,
     activeLoops, closeStarted, lastReq, reqs, fx, call, inListener, liveIters, obs,
     seeks, delivered, logging >>

vars == << playerVars, alias, manager, pipeline, recentsStore >>

\* The whole state as one record, so that the statements of a handler compose.
P ==
  [state |-> state, nextState |-> nextState, runningState |-> runningState,
   isPlaying |-> isPlaying, listener |-> listener, speed |-> speed, start |-> start,
   end |-> end, lastTickMillis |-> lastTickMillis, lastSeekEmitTime |-> lastSeekEmitTime,
   providerTopics |-> providerTopics, allTopics |-> allTopics,
   allTopicsId |-> allTopicsId, preloadTopics |-> preloadTopics, messages |-> messages,
   hasError |-> hasError, lastRangeMillis |-> lastRangeMillis,
   lastMessageEvent |-> lastMessageEvent, lastStamp |-> lastStamp,
   seekTarget |-> seekTarget, presence |-> presence, currentTime |-> currentTime,
   problems |-> problems, abort |-> abort, playbackIterator |-> playbackIterator,
   blockLoader |-> blockLoader, untilTime |-> untilTime, isClosed |-> isClosed,
   emitCalling |-> emitCalling, emitPending |-> emitPending,
   pc |-> pc, tickEnd |-> tickEnd, msgEvents |-> msgEvents, timer |-> timer,
   targetTime |-> targetTime, playAllTopics |-> playAllTopics, awaited |-> awaited,
   aborted |-> aborted,
   src |-> src, blockLoading |-> blockLoading, calls |-> calls, faults |-> faults,
   activeLoops |-> activeLoops, closeStarted |-> closeStarted, lastReq |-> lastReq, reqs |-> reqs,
   fx |-> fx, call |-> call, inListener |-> inListener, liveIters |-> liveIters,
   obs |-> obs, seeks |-> seeks, delivered |-> delivered, logging |-> logging]

Commit(this) == \E q \in {this} :
  /\ state' = q.state /\ nextState' = q.nextState /\ runningState' = q.runningState
  /\ isPlaying' = q.isPlaying /\ listener' = q.listener /\ speed' = q.speed
  /\ start' = q.start /\ end' = q.end /\ lastTickMillis' = q.lastTickMillis
  /\ lastSeekEmitTime' = q.lastSeekEmitTime /\ providerTopics' = q.providerTopics
  /\ allTopics' = q.allTopics /\ allTopicsId' = q.allTopicsId
  /\ preloadTopics' = q.preloadTopics /\ messages' = q.messages
  /\ hasError' = q.hasError /\ lastRangeMillis' = q.lastRangeMillis
  /\ lastMessageEvent' = q.lastMessageEvent /\ lastStamp' = q.lastStamp
  /\ seekTarget' = q.seekTarget /\ presence' = q.presence
  /\ currentTime' = q.currentTime /\ problems' = q.problems /\ abort' = q.abort
  /\ playbackIterator' = q.playbackIterator /\ blockLoader' = q.blockLoader
  /\ untilTime' = q.untilTime /\ isClosed' = q.isClosed
  /\ emitCalling' = q.emitCalling /\ emitPending' = q.emitPending
  /\ pc' = q.pc /\ tickEnd' = q.tickEnd /\ msgEvents' = q.msgEvents
  /\ timer' = q.timer /\ targetTime' = q.targetTime
  /\ playAllTopics' = q.playAllTopics /\ awaited' = q.awaited /\ aborted' = q.aborted
  /\ src' = q.src /\ blockLoading' = q.blockLoading /\ calls' = q.calls
  /\ faults' = q.faults
  /\ activeLoops' = q.activeLoops /\ closeStarted' = q.closeStarted
  /\ lastReq' = q.lastReq /\ reqs' = q.reqs /\ fx' = q.fx /\ call' = q.call
  /\ inListener' = q.inListener /\ liveIters' = q.liveIters /\ obs' = q.obs
  /\ seeks' = q.seeks /\ delivered' = q.delivered /\ logging' = q.logging
  /\ alias' = alias /\ manager' = manager
  /\ pipeline' = pipeline /\ recentsStore' = recentsStore

\* F(v).  The operators that take the player's state name it once with this, so
\* that a handler's statements are evaluated in sequence, each on the state the
\* one before it left.
With(v, F(_)) == CHOOSE r \in { F(x) : x \in {v} } : TRUE

\* What the last step did: fx are the effects it had, obs what it was given and,
\* for a tick, what it produced; emit, progress and active are the presence,
\* whether progress is the player's (not {}) and whether activeData is defined in
\* the PlayerState the step passed to the listener.  Every step starts from a
\* blank record.
NoObs ==
  [time |-> None, subs |-> <<>>, tick |-> FALSE, prev |-> None, to |-> None,
   batch |-> <<>>, topics |-> {}, from |-> None, reqs |-> 0, pending |-> FALSE,
   emit |-> "", progress |-> FALSE, active |-> FALSE]

Begin(this, name) == With(this, LAMBDA q : [q EXCEPT !.fx = {}, !.obs = NoObs, !.call = name])

Fx(this, tag) == With(this, LAMBDA q : [q EXCEPT !.fx = @ \cup {tag}])

\* ------------------------------------------------------------- emission
\* the PlayerState of the step, as far as it is observed
Emitted(this, p, pr, ad) == With(this, LAMBDA q :
  [q EXCEPT !.inListener = @ + 1,
            !.fx = @ \cup {"listener"},
            !.obs = [@ EXCEPT !.emit = p, !.progress = pr, !.active = ad]])

\* emitStateImpl without its branch for #hasError
EmitStateNoErrorBranch(this) == With(this, LAMBDA q :
  IF ~q.listener THEN q
  ELSE LET ad == q.start # None /\ q.end # None /\ q.currentTime # None
       IN Emitted([q EXCEPT !.messages = <<>>,
                            !.delivered = IF q.logging /\ ad THEN @ \o q.messages ELSE @],
                  q.presence, TRUE, ad))

\* emitStateImpl up to its await of the listener
EmitStateImpl(this) == With(this, LAMBDA q :
  IF ~q.listener THEN q
  ELSE IF q.hasError THEN Emitted(q, "ERROR", FALSE, FALSE)
  ELSE LET ad == q.start # None /\ q.end # None /\ q.currentTime # None
       IN Emitted([q EXCEPT !.messages = <<>>,
                            !.delivered = IF q.logging /\ ad THEN @ \o q.messages ELSE @],
                  q.presence, TRUE, ad))

\* debouncePromise: start(), the call that is made when none is in flight
StartEmit(this) == With(this, LAMBDA q :
  EmitStateImpl([q EXCEPT !.emitCalling = TRUE, !.emitPending = FALSE]))

\* #emitStateImpl called at once by every trigger, with no debouncePromise
QueueEmitStateDirect(this) == With(this, LAMBDA q :
  Fx(EmitStateImpl([q EXCEPT !.emitCalling = TRUE]), "emit"))

\* debouncePromise: the debounced function
QueueEmitState(this) == With(this, LAMBDA q :
  Fx(IF q.emitCalling THEN [q EXCEPT !.emitPending = TRUE] ELSE StartEmit(q), "emit"))

\* ------------------------------------------------------------- transitions
SetError(this) == With(this, LAMBDA q :
  [q EXCEPT !.hasError = TRUE,
            !.problems = @ \cup {<<"global-error", 0>>},
            !.isPlaying = FALSE])

\* #runState without its #runningState guard
RunStateUnguarded(this) == With(this, LAMBDA q :
  [q EXCEPT !.runningState = TRUE, !.pc = "loop", !.activeLoops = @ + 1])

\* #runState, from its call to the start of its loop
RunState(this) == With(this, LAMBDA q :
  IF q.runningState THEN q
  ELSE [q EXCEPT !.runningState = TRUE, !.pc = "loop", !.activeLoops = @ + 1])

\* a transition is requested: the history of requests, whatever becomes of it
Requested(this, newState) == With(this, LAMBDA q :
  [q EXCEPT !.lastReq = newState, !.reqs = Min(@ + 1, 2)])

\* variants of #setState: one that keeps the first pending request, one without
\* the guard for close, one that aborts the registered controller and keeps it,
\* one that does not abort
SetStateFirstWins(this, newState) == With(this, LAMBDA q :
  IF q.nextState # "none" THEN Fx(Requested(q, newState), "ignored")
  ELSE RunState([Requested(q, newState) EXCEPT !.nextState = newState,
                                               !.aborted = @ \/ q.abort,
                                               !.abort = FALSE,
                                               !.fx = @ \cup {"setState"}]))

SetStateNoCloseGuard(this, newState) == With(this, LAMBDA q :
  RunState([Requested(q, newState) EXCEPT !.nextState = newState,
                                          !.aborted = @ \/ q.abort,
                                          !.abort = FALSE,
                                          !.fx = @ \cup {"setState"}]))

SetStateKeepsController(this, newState) == With(this, LAMBDA q :
  IF q.nextState = "close" THEN Fx(Requested(q, newState), "ignored")
  ELSE RunState([Requested(q, newState) EXCEPT !.nextState = newState,
                                               !.aborted = @ \/ q.abort,
                                               !.fx = @ \cup {"setState"}]))

SetStateNoAbort(this, newState) == With(this, LAMBDA q :
  IF q.nextState = "close" THEN Fx(Requested(q, newState), "ignored")
  ELSE RunState([Requested(q, newState) EXCEPT !.nextState = newState,
                                               !.fx = @ \cup {"setState"}]))

\* #setState
SetState(this, newState) == With(this, LAMBDA q :
  IF q.nextState = "close" THEN Fx(Requested(q, newState), "ignored")
  ELSE RunState([Requested(q, newState) EXCEPT !.nextState = newState,
                                               !.aborted = @ \/ q.abort,
                                               !.abort = FALSE,
                                               !.fx = @ \cup {"setState"}]))

\* ------------------------------------------------------------- public methods
\* setListener without its test of #listener
SetListenerAgain(this) == With(this, LAMBDA q :
  SetState([q EXCEPT !.listener = TRUE], "initialize"))

SetListenerImpl(this) == With(this, LAMBDA q :
  IF q.listener THEN Fx(q, "throw")
  ELSE SetState([q EXCEPT !.listener = TRUE], "initialize"))

\* #startPlayImpl; until is None for startPlayback
StartPlayImpl(this, until) == With(this, LAMBDA q :
  IF q.isPlaying \/ q.untilTime # None \/ q.start = None \/ q.end = None THEN q
  ELSE IF until # None /\ q.currentTime # None /\ until <= q.currentTime
       THEN Fx(q, "throw")
  ELSE LET q1 == [q EXCEPT
                    !.untilTime = IF until # None THEN ClampTime(until, q.start, q.end)
                                  ELSE @,
                    !.isPlaying = TRUE,
                    !.fx = @ \cup {"metrics.play"}]
       IN IF q1.state = "idle" /\ q1.nextState \in {"none", "idle"}
          THEN SetState(q1, "play")
          ELSE QueueEmitState(q1))

\* pausePlayback without its guard on #isPlaying
PausePlaybackNoGuard(this) == With(this, LAMBDA q :
  LET q1 == [q EXCEPT !.lastTickMillis = FALSE,
                      !.isPlaying = FALSE,
                      !.untilTime = None,
                      !.lastRangeMillis = FALSE,
                      !.fx = @ \cup {"metrics.pause"}]
  IN IF q1.state = "play" THEN SetState(q1, "idle") ELSE QueueEmitState(q1))

PausePlaybackImpl(this) == With(this, LAMBDA q :
  IF ~q.isPlaying THEN q
  ELSE LET q1 == [q EXCEPT !.lastTickMillis = FALSE,
                           !.isPlaying = FALSE,
                           !.untilTime = None,
                           !.lastRangeMillis = FALSE,
                           !.fx = @ \cup {"metrics.pause"}]
       IN IF q1.state = "play" THEN SetState(q1, "idle") ELSE QueueEmitState(q1))

SetPlaybackSpeedImpl(this, s) == With(this, LAMBDA q :
  QueueEmitState([q EXCEPT !.lastRangeMillis = FALSE, !.speed = s]))

\* seekPlayback without its "already at this time" return
SeekPlaybackNoTimeCheck(this, t) == With(this, LAMBDA q :
  IF q.state \in {"preinit", "initialize"} THEN [q EXCEPT !.seekTarget = t]
  ELSE IF q.start = None \/ q.end = None THEN Fx(q, "throw")
  ELSE LET tt == ClampTime(t, q.start, q.end)
       IN IF q.seekTarget # None /\ q.seekTarget = tt THEN q
          ELSE SetState([q EXCEPT !.seekTarget = tt,
                                  !.untilTime = None,
                                  !.lastTickMillis = FALSE,
                                  !.lastRangeMillis = FALSE,
                                  !.fx = @ \cup {"metrics.seek"}],
                        "seek-backfill"))

SeekPlaybackImpl(this, t) == With(this, LAMBDA q :
  IF q.state \in {"preinit", "initialize"} THEN [q EXCEPT !.seekTarget = t]
  ELSE IF q.start = None \/ q.end = None THEN Fx(q, "throw")
  ELSE LET tt == ClampTime(t, q.start, q.end)
       IN IF q.seekTarget # None /\ q.seekTarget = tt THEN q
          ELSE IF q.currentTime # None /\ q.currentTime = tt THEN q
          ELSE SetState([q EXCEPT !.seekTarget = tt,
                                  !.untilTime = None,
                                  !.lastTickMillis = FALSE,
                                  !.lastRangeMillis = FALSE,
                                  !.fx = @ \cup {"metrics.seek"}],
                        "seek-backfill"))

\* allTopics === this.#allTopics: a new Map is never the current one
SelectionsEqualIdentity(q, allT, preT) == FALSE

\* _.isEqual(allTopics, this.#allTopics) && _.isEqual(preloadTopics, this.#preloadTopics)
SelectionsEqual(q, allT, preT) == allT = q.allTopics /\ preT = q.preloadTopics

SetSubscriptionsImpl(this, subs) == With(this, LAMBDA q :
  LET allT == AllTopicsOf(subs)
      preT == PreloadTopicsOf(subs)
      q0 == Fx(q, "metrics.setSubscriptions")
  IN IF SelectionsEqual(q0, allT, preT) THEN q0
     ELSE LET q1 == [q0 EXCEPT !.allTopics = allT,
                               !.allTopicsId = @ + 1,
                               !.preloadTopics = preT,
                               !.fx = IF q0.blockLoader THEN @ \cup {"blockLoader.setTopics"}
                                      ELSE @]
          IN IF /\ q1.state \in {"idle", "seek-backfill", "play", "start-play"}
                /\ ~q1.isPlaying
                /\ q1.currentTime # None
             THEN SetState([q1 EXCEPT
                              !.seekTarget = IF @ = None THEN q1.currentTime ELSE @,
                              !.untilTime = None,
                              !.lastTickMillis = FALSE,
                              !.lastRangeMillis = FALSE],
                           "seek-backfill")
             ELSE q1)

CloseImpl(this) == With(this, LAMBDA q : SetState(q, "close"))


\* ------------------------------------------------------------- the run loop
SyncPcs == {"loop", "dispatch", "play_top"}

\* #runState: catch and finally
RunStateCatch(this) == With(this, LAMBDA q :
  [QueueEmitState(SetError(q)) EXCEPT !.runningState = FALSE,
                                      !.pc = "off",
                                      !.timer = FALSE,
                                      !.activeLoops = @ - 1])

\* the head of the loop without the return() of the playback iterator
LoopHeadNoReturn(this) == With(this, LAMBDA q :
  IF q.nextState = "none"
  THEN [q EXCEPT !.runningState = FALSE, !.pc = "off", !.activeLoops = @ - 1]
  ELSE [q EXCEPT !.state = q.nextState,
                 !.nextState = "none",
                 !.closeStarted = @ \/ q.nextState = "close",
                 !.seeks = IF q.nextState = "play" THEN <<>> ELSE @,
                 !.reqs = 0,
                 !.obs = [@ EXCEPT !.reqs = q.reqs],
                 !.fx = @ \cup {"start"},
                 !.pc = "dispatch"])

\* #runState: the head of the while loop
\* the loop head that ends the playback iterator on entering play as well
LoopHeadReturnsOnPlay(this) == With(this, LAMBDA q :
  IF q.nextState = "none"
  THEN [q EXCEPT !.runningState = FALSE, !.pc = "off", !.activeLoops = @ - 1]
  ELSE LET q1 == [q EXCEPT !.state = q.nextState,
                           !.nextState = "none",
                           !.closeStarted = @ \/ q.nextState = "close",
                           !.seeks = IF q.nextState = "play" THEN <<>> ELSE @,
                           !.reqs = 0,
                           !.obs = [@ EXCEPT !.reqs = q.reqs],
                           !.fx = @ \cup {"start"}]
       IN IF q1.state # "idle" /\ q1.playbackIterator.ex
          THEN [q1 EXCEPT !.pc = "loop_return"]
          ELSE [q1 EXCEPT !.pc = "dispatch"])

LoopHead(this) == With(this, LAMBDA q :
  IF q.nextState = "none"
  THEN [q EXCEPT !.runningState = FALSE, !.pc = "off", !.activeLoops = @ - 1]
  ELSE LET q1 == [q EXCEPT !.state = q.nextState,
                           !.nextState = "none",
                           !.closeStarted = @ \/ q.nextState = "close",
                           !.seeks = IF q.nextState = "play" THEN <<>> ELSE @,
                           !.reqs = 0,
                           !.obs = [@ EXCEPT !.reqs = q.reqs],
                           !.fx = @ \cup {"start"}]
       IN IF q1.state \notin {"idle", "play"} /\ q1.playbackIterator.ex
          THEN [q1 EXCEPT !.pc = "loop_return"]
          ELSE [q1 EXCEPT !.pc = "dispatch"])

\* the topics with the last entry of each name kept, not the first
UniqueTopicsLastWins(topics) ==
  [ i \in 1..Cardinality({ topics[j][1] : j \in 1..Len(topics) }) |->
      LET keep == { j \in 1..Len(topics) :
                      \A k \in (j+1)..Len(topics) : topics[k][1] # topics[j][1] }
          idx == CHOOSE j \in keep : Cardinality({ k \in keep : k <= j }) = i
      IN topics[idx] ]

\* the first topic of each name, in the order of the list
RECURSIVE UniqueTopics(_)
UniqueTopics(topics) ==
  IF topics = <<>> THEN <<>>
  ELSE LET front == UniqueTopics(SubSeq(topics, 1, Len(topics) - 1))
           last == topics[Len(topics)]
       IN IF \E i \in 1..Len(front) : front[i][1] = last[1] THEN front
          ELSE Append(front, last)

\* #stateInitialize, after bufferedSource.initialize() has resolved
InitializeResolved(this) == With(this, LAMBDA q :
  LET s == q.src
      target == IF q.seekTarget # None THEN ClampTime(q.seekTarget, s.start, s.end)
                ELSE None
      unique == UniqueTopics(s.topics)
      n == s.initProblems + (Len(s.topics) - Len(unique))
      q1 == [q EXCEPT !.seekTarget = target,
                      !.start = s.start,
                      !.currentTime = IF target # None THEN target ELSE s.start,
                      !.end = s.end,
                      !.providerTopics = unique,
                      !.problems = @ \cup { <<"init-problem", i>> : i \in 0..(n-1) }
                                     \cup (IF s.tooFarApart THEN {<<"block-loader", 0>>}
                                           ELSE {}),
                      !.blockLoader = ~s.tooFarApart,
                      !.presence = "PRESENT"]
      q2 == QueueEmitState(q1)
  IN IF ~q2.hasError THEN [q2 EXCEPT !.pc = "init_delay"] ELSE [q2 EXCEPT !.pc = "loop"])

\* #stateInitialize, when bufferedSource.initialize() rejects
InitializeRejected(this) == With(this, LAMBDA q :
  [QueueEmitState(SetError(q)) EXCEPT !.pc = "loop"])

\* #stateInitialize, after delay(START_DELAY_MS)
InitializeDelayed(this) == With(this, LAMBDA q :
  LET q1 == [q EXCEPT !.blockLoading = IF q.blockLoader THEN "on" ELSE @,
                      !.fx = IF q.blockLoader THEN @ \cup {"blockLoader.setTopics"} ELSE @]
  IN [SetState(q1, "start-play") EXCEPT !.pc = "loop"])

StopTime(q) == ClampTime(q.start + SEEK_ON_START, q.start, q.end)

NewIterator(this, from) == With(this, LAMBDA q :
  [q EXCEPT !.playbackIterator = MessageIterator(TopicNames(q.allTopics), q.allTopicsId, from),
            !.liveIters = @ + 1])

\* #stateStartPlay without its test of #seekTarget
StateStartPlayNoHandOver(this) == With(this, LAMBDA q :
  IF q.start = None \/ q.end = None THEN RunStateCatch(q)
  ELSE IF q.playbackIterator.ex THEN RunStateCatch(q)
  ELSE [NewIterator(q, q.start) EXCEPT !.lastMessageEvent = 0,
                                       !.messages = <<>>,
                                       !.msgEvents = <<>>,
                                       !.timer = TRUE,
                                       !.pc = "startplay_next"])

\* #stateStartPlay, up to its first await
StateStartPlay(this) == With(this, LAMBDA q :
  IF q.start = None \/ q.end = None THEN RunStateCatch(q)
  ELSE IF q.seekTarget # None THEN [SetState(q, "seek-backfill") EXCEPT !.pc = "loop"]
  ELSE IF q.playbackIterator.ex THEN RunStateCatch(q)
  ELSE [NewIterator(q, q.start) EXCEPT !.lastMessageEvent = 0,
                                       !.messages = <<>>,
                                       !.msgEvents = <<>>,
                                       !.timer = TRUE,
                                       !.pc = "startplay_next"])

\* the iterator after its next() has resolved with result idx
Advance(it, idx) == IF idx = 0 THEN it ELSE [it EXCEPT !.pos = idx + 1]

\* #stateStartPlay: the statements after its loop
StartPlayDone(this) == With(this, LAMBDA q :
  LET q1 == [q EXCEPT !.timer = FALSE,
                      !.currentTime = StopTime(q),
                      !.messages = q.msgEvents,
                      !.presence = "PRESENT"]
  IN [SetState(QueueEmitState(q1), "idle") EXCEPT !.pc = "loop"])

\* #stateStartPlay: one pass of its loop, next() having resolved
StartPlayNext(this) == With(this, LAMBDA q :
  LET idx == IterNextIdx(q.src.items, q.playbackIterator)
      q1 == [q EXCEPT !.playbackIterator = Advance(@, idx)]
      x == q.src.items[idx]
  IN IF idx = 0 THEN StartPlayDone(q1)
     ELSE IF q1.nextState # "none" THEN [q1 EXCEPT !.timer = FALSE, !.pc = "loop"]
     ELSE IF x.type = "problem"
          THEN [q1 EXCEPT !.problems = @ \cup {<<"connid", x.conn>>}]
     ELSE IF x.type = "stamp" /\ x.time >= StopTime(q1)
          THEN StartPlayDone([q1 EXCEPT !.lastStamp = x.time])
     ELSE IF x.type = "message-event" /\ x.time > StopTime(q1)
          THEN StartPlayDone([q1 EXCEPT !.lastMessageEvent = idx])
     ELSE IF x.type = "message-event"
          THEN [q1 EXCEPT !.msgEvents = Append(@, idx)]
     ELSE q1)

\* #stateSeekBackfill: finally
SeekFinally(this) == With(this, LAMBDA q :
  [q EXCEPT !.seekTarget = IF q.nextState # "seek-backfill" THEN None ELSE @,
            !.timer = FALSE,
            !.abort = FALSE])

\* #stateSeekBackfill, up to its await of getBackfillMessages; msgEvents holds
\* what the request resolves with
StateSeekBackfill(this) == With(this, LAMBDA q :
  IF q.start = None \/ q.end = None THEN RunStateCatch(q)
  ELSE IF q.seekTarget = None THEN [q EXCEPT !.pc = "loop"]
  ELSE LET t == ClampTime(q.seekTarget, q.start, q.end)
       IN [q EXCEPT !.targetTime = t,
                    !.lastMessageEvent = 0,
                    !.timer = TRUE,
                    !.abort = TRUE,
                    !.aborted = FALSE,
                    !.msgEvents = BackfillMessages(q.src.items, TopicNames(q.allTopics), t),
                    !.fx = @ \cup {"getBackfillMessages"},
                    !.pc = "seek_wait"])

\* #stateSeekBackfill, getBackfillMessages having resolved
SeekResolved(this) == With(this, LAMBDA q :
  IF q.nextState # "none" THEN [SeekFinally(q) EXCEPT !.pc = "loop"]
  ELSE LET q1 == [q EXCEPT !.timer = FALSE,
                           !.messages = q.msgEvents,
                           !.currentTime = q.targetTime,
                           !.lastSeekEmitTime = @ + 1,
                           !.presence = "PRESENT",
                           !.fx = @ \cup {"seeked"}]
       IN [QueueEmitState(q1) EXCEPT !.pc = "reset_return"])

\* the catch of #stateSeekBackfill without its test of the error's name
SeekRejectedAnyName(this, name) == With(this, LAMBDA q :
  IF q.nextState # "none"
  THEN [SeekFinally(Fx(q, name)) EXCEPT !.pc = "loop"]
  ELSE RunStateCatch(SeekFinally(Fx(q, name))))

\* #stateSeekBackfill: catch and finally, an awaited call of its try block having
\* rejected with an error of the given name
SeekRejected(this, name) == With(this, LAMBDA q :
  IF q.nextState # "none" /\ name = "AbortError"
  THEN [SeekFinally(Fx(q, name)) EXCEPT !.pc = "loop"]
  ELSE RunStateCatch(SeekFinally(Fx(q, name))))

\* an exception inside #resetPlaybackIterator, in either state that calls it
ResetThrows(this, name) == With(this, LAMBDA q :
  IF q.state = "seek-backfill" THEN SeekRejected(q, name) ELSE RunStateCatch(q))

\* #resetPlaybackIterator, return() of the previous iterator having resolved
ResetReturned(this) == With(this, LAMBDA q :
  [q EXCEPT !.playbackIterator = IF @.ex THEN [@ EXCEPT !.closed = TRUE] ELSE @,
            !.liveIters = IF q.playbackIterator.ex /\ ~q.playbackIterator.closed
                          THEN @ - 1 ELSE @,
            !.pc = "reset_stop"])

\* #resetPlaybackIterator after stopProducer(), and the statements of the
\* calling state that follow it
ResetStopped(this) == With(this, LAMBDA q :
  LET q1 == NewIterator(q, q.currentTime + 1)
      q2 == SetState(q1, IF q1.isPlaying THEN "play" ELSE "idle")
      q3 == IF q.state = "seek-backfill"
            THEN [SeekFinally(q2) EXCEPT
                    !.seeks = IF Len(@) = 1 THEN <<>> ELSE @]
            ELSE q2
  IN [q3 EXCEPT !.pc = "loop"])

\* #stateResetPlaybackIterator, up to its first await
StateResetPlaybackIterator(this) == With(this, LAMBDA q :
  IF q.currentTime = None THEN RunStateCatch(q) ELSE [q EXCEPT !.pc = "reset_return"])

\* #stateIdle, up to its await
StateIdle(this) == With(this, LAMBDA q :
  IF q.abort THEN RunStateCatch(q)
  ELSE [QueueEmitState([q EXCEPT !.isPlaying = FALSE,
                                 !.presence = "PRESENT",
                                 !.abort = TRUE,
                                 !.aborted = FALSE])
          EXCEPT !.pc = "idle_wait"])

\* #statePlay: catch
PlayCatch(this) == With(this, LAMBDA q :
  [QueueEmitState(SetError(q)) EXCEPT !.timer = FALSE, !.pc = "loop"])

\* #statePlay, up to its loop
StatePlay(this) == With(this, LAMBDA q :
  LET q1 == [q EXCEPT !.presence = "PRESENT"]
  IN IF q1.currentTime = None \/ q1.start = None \/ q1.end = None THEN RunStateCatch(q1)
     ELSE [q1 EXCEPT !.playAllTopics = q1.allTopicsId, !.pc = "play_top"])

\* #tick going on to its last statements without awaiting the emission in flight
TickNoAwait(this, e, batch) == With(this, LAMBDA q :
  [q EXCEPT !.tickEnd = e, !.msgEvents = batch, !.awaited = TRUE, !.pc = "tick_emit"])

\* the two early returns of #tick and its last statements wait here
TickAwaitEmit(this, e, batch) == With(this, LAMBDA q :
  [q EXCEPT !.tickEnd = e, !.msgEvents = batch, !.awaited = ~q.emitCalling,
            !.pc = "tick_emit"])

\* #tick, up to its first await; range is the length of the window it reads
TickStart(this, range) == With(this, LAMBDA q :
  LET q1 == [q EXCEPT !.lastTickMillis = TRUE, !.lastRangeMillis = TRUE]
      e == ClampTime(q1.currentTime + range, q1.start,
                     IF q1.untilTime # None THEN q1.untilTime ELSE q1.end)
  IN IF q1.lastStamp # None /\ q1.lastStamp >= e THEN TickAwaitEmit(q1, e, <<>>)
     ELSE LET q2 == [q1 EXCEPT !.lastStamp = None]
          IN IF q2.lastMessageEvent # 0 /\ q2.src.items[q2.lastMessageEvent].time > e
             THEN TickAwaitEmit(q2, e, <<>>)
             ELSE LET q3 == [q2 EXCEPT
                               !.msgEvents = IF q2.lastMessageEvent # 0
                                             THEN <<q2.lastMessageEvent>> ELSE <<>>,
                               !.lastMessageEvent = 0,
                               !.tickEnd = e]
                  IN IF ~q3.playbackIterator.ex THEN PlayCatch(q3)
                     ELSE [q3 EXCEPT !.timer = TRUE, !.pc = "tick_next"])

\* #statePlay: the head of its while loop
PlayTop(this, range) == With(this, LAMBDA q :
  IF ~(q.isPlaying /\ ~q.hasError /\ q.nextState = "none") THEN [q EXCEPT !.pc = "loop"]
  ELSE IF q.currentTime >= q.end
  THEN [SetState([q EXCEPT !.lastTickMillis = FALSE,
                           !.lastRangeMillis = FALSE,
                           !.lastStamp = None], "idle") EXCEPT !.pc = "loop"]
  ELSE TickStart(q, range))

\* #tick: the statements between its loop and its await of the emission
TickAfterLoop(this) == With(this, LAMBDA q :
  LET q1 == [q EXCEPT !.timer = FALSE, !.presence = "PRESENT"]
  IN IF q1.nextState # "none" THEN [q1 EXCEPT !.pc = "loop"]
     ELSE TickAwaitEmit(q1, q1.tickEnd, q1.msgEvents))

\* compare(receiveTime, end) >= 0: a window that excludes its end
AfterWindowInclusive(t, e) == t >= e

\* compare(receiveTime, end) > 0: the end of the window is inclusive
AfterWindow(t, e) == t > e

\* #tick: one pass of its loop, next() having resolved
TickNext(this) == With(this, LAMBDA q :
  LET idx == IterNextIdx(q.src.items, q.playbackIterator)
      q1 == [q EXCEPT !.playbackIterator = Advance(@, idx)]
      x == q.src.items[idx]
  IN IF idx = 0 \/ q1.nextState # "none" THEN TickAfterLoop(q1)
     ELSE IF x.type = "problem"
          THEN [q1 EXCEPT !.problems = @ \cup {<<"connid", x.conn>>}]
     ELSE IF x.type = "stamp" /\ x.time >= q1.tickEnd
          THEN TickAfterLoop([q1 EXCEPT !.lastStamp = x.time])
     ELSE IF x.type = "message-event" /\ AfterWindow(x.time, q1.tickEnd)
          THEN TickAfterLoop([q1 EXCEPT !.lastMessageEvent = idx])
     ELSE IF x.type = "message-event"
          THEN [q1 EXCEPT !.msgEvents = Append(@, idx)]
     ELSE q1)

\* #tick: its last statements, the awaited emission having finished
TickFinish(this) == With(this, LAMBDA q :
  LET q1 == [q EXCEPT !.currentTime = q.tickEnd,
                      !.messages = q.msgEvents,
                      !.obs = [@ EXCEPT !.tick = TRUE,
                                        !.pending = q.nextState # "none",
                                        !.prev = q.currentTime,
                                        !.to = q.tickEnd,
                                        !.batch = q.msgEvents,
                                        !.topics = q.playbackIterator.topics,
                                        !.from = q.playbackIterator.from]]
      q2 == QueueEmitState(q1)
  IN IF q2.untilTime # None /\ q2.currentTime >= q2.untilTime
     THEN PausePlaybackImpl(q2) ELSE q2)

\* #statePlay: the statements of its loop after the tick; sleep says whether
\* the tick took less than a frame
PlayAfterTick(this, sleep) == With(this, LAMBDA q :
  IF q.nextState # "none" THEN [q EXCEPT !.pc = "loop"]
  ELSE IF q.allTopicsId # q.playAllTopics
  THEN [SetState([q EXCEPT !.lastMessageEvent = 0], "reset-playback-iterator")
          EXCEPT !.pc = "loop"]
  ELSE [q EXCEPT !.pc = IF sleep THEN "play_delay" ELSE "play_top"])

\* #stateClose, up to its first await
StateClose(this) == With(this, LAMBDA q :
  [q EXCEPT !.isPlaying = FALSE,
            !.fx = @ \cup {"metrics.close"},
            !.pc = IF q.blockLoader THEN "close_stopLoading" ELSE "close_blockLoadingProcess"])

ClosePcs ==
  {"close_stopLoading", "close_blockLoadingProcess", "close_stopProducer",
   "close_terminate", "close_return", "close_sourceTerminate"}

\* #stateClose: the statements after each of its awaits
CloseStep(this) == With(this, LAMBDA q :
  CASE q.pc = "close_stopLoading" ->
         [q EXCEPT !.blockLoading = IF @ = "on" THEN "stopped" ELSE @,
                   !.pc = "close_blockLoadingProcess"]
    [] q.pc = "close_blockLoadingProcess" -> [q EXCEPT !.pc = "close_stopProducer"]
    [] q.pc = "close_stopProducer" -> [q EXCEPT !.pc = "close_terminate"]
    [] q.pc = "close_terminate" -> [q EXCEPT !.pc = "close_return"]
    [] q.pc = "close_return" ->
         [q EXCEPT !.playbackIterator = NoIterator,
                   !.liveIters = IF q.playbackIterator.ex /\ ~q.playbackIterator.closed
                                 THEN @ - 1 ELSE @,
                   !.pc = "close_sourceTerminate"]
    [] q.pc = "close_sourceTerminate" -> [q EXCEPT !.isClosed = TRUE, !.pc = "loop"])

\* #runState: the switch
Dispatch(this) == With(this, LAMBDA q :
  CASE q.state = "preinit" -> [QueueEmitState(q) EXCEPT !.pc = "loop"]
    [] q.state = "initialize" -> [QueueEmitState(q) EXCEPT !.pc = "init_wait"]
    [] q.state = "start-play" -> StateStartPlay(q)
    [] q.state = "idle" -> StateIdle(q)
    [] q.state = "seek-backfill" -> StateSeekBackfill(q)
    [] q.state = "play" -> StatePlay(q)
    [] q.state = "close" -> StateClose(q)
    [] q.state = "reset-playback-iterator" -> StateResetPlaybackIterator(q))


\* ------------------------------------------------------------- TopicAliasingPlayer
\* The PlayerStates the wrapped player emits: topics is the identity of
\* activeData.topics, None when activeData is undefined.
MaxBatches == 2    \* message batches the wrapped player emits

\* a PlayerState: the identity of activeData.topics, activeData.isPlaying, and
\* the batch in activeData.messages (0: no messages)
PlayerStatesWith(batches) == [topics : {None, 1, 2}, playing : BOOLEAN, messages : batches]

PlayerStates == PlayerStatesWith({0})

NoPlayerState == [topics |-> None - 1, playing |-> FALSE, messages |-> 0]

\* topic names downstream subscribes to: a topic of the source and an alias
AliasTopics == {"a", "x"}

SubscriptionSets == SUBSET AliasTopics

NoSubscriptions == {"undefined"}

\* the values setGlobalVariables is called with
GlobalVariables == {0, 1, 2}

NoopStateProcessor == << None - 1, 0 >>

\* the fields after the constructor; inFlight counts the calls of the downstream
\* listener that have not resolved, out is what the listener was last called
\* with (same: the object the wrapped player emitted), did is what the last
\* step did
NewTopicAliasingPlayer ==
  [listener |-> FALSE, locked |-> FALSE, skipAliasing |-> TRUE, aliasFunctions |-> FALSE,
   topics |-> None, variables |-> 0, stateProcessor |-> NoopStateProcessor,
   lastPlayerState |-> NoPlayerState, inFlight |-> 0, did |-> {},
   subscriptions |-> {}, aliasedSubscriptions |-> NoSubscriptions,
   out |-> [state |-> NoPlayerState, same |-> TRUE]]

\* StateProcessorFactory.buildStateProcessor: the same processor for the same
\* alias mapping; the mapping depends on the topics and on the variables
BuildStateProcessor(a) == << a.topics, a.variables % 2 >>

\* IStateProcessor.aliasSubscriptions: NoopStateProcessor returns the
\* subscriptions it is given; a processor built from alias functions replaces
\* the alias by the topic its mapping gives it
AliasSubscriptions(processor, subs) ==
  IF processor = NoopStateProcessor THEN subs
  ELSE { IF t = "x" THEN (IF processor[2] = 0 THEN "a" ELSE "b") ELSE t : t \in subs }

\* #resetSubscriptions
ResetSubscriptions(a) ==
  [a EXCEPT !.aliasedSubscriptions = AliasSubscriptions(a.stateProcessor, a.subscriptions),
            !.did = @ \cup {"resetSubscriptions"}]

\* TopicAliasingPlayer.setSubscriptions
AliasSetSubscriptionsImpl(a, subs) ==
  [a EXCEPT !.subscriptions = subs,
            !.aliasedSubscriptions = AliasSubscriptions(a.stateProcessor, subs)]

\* #onPlayerState without the gate: the listener is called at once
OnPlayerStateNoGate(a, playerState) ==
  IF ~a.listener \/ a.inFlight >= 2 THEN a
  ELSE [a EXCEPT !.inFlight = @ + 1, !.did = @ \cup {"listener"}]

\* #onPlayerState, up to its await of the listener
OnPlayerState(a, playerState) ==
  IF ~a.listener THEN a
  ELSE IF a.locked THEN [a EXCEPT !.did = @ \cup {"dropped"}]
  ELSE IF a.skipAliasing
  THEN [a EXCEPT !.locked = TRUE, !.inFlight = @ + 1,
                 !.out = [state |-> playerState, same |-> TRUE],
                 !.did = @ \cup {"listener"}]
  ELSE LET a1 == [a EXCEPT !.topics = playerState.topics]
           a2 == IF playerState.topics = a.topics THEN a
                 ELSE IF BuildStateProcessor(a1) # a.stateProcessor
                 THEN ResetSubscriptions([a1 EXCEPT
                                            !.stateProcessor = BuildStateProcessor(a1)])
                 ELSE a1
       IN [a2 EXCEPT !.lastPlayerState = playerState,
                     !.locked = TRUE,
                     !.inFlight = @ + 1,
                     !.out = [state |-> playerState, same |-> FALSE],
                     !.did = @ \cup {"listener"}]

\* TopicAliasingPlayer.setGlobalVariables
SetGlobalVariablesImpl(a, v) ==
  LET a1 == [a EXCEPT !.variables = v]
      shouldReprocess == BuildStateProcessor(a1) # a1.stateProcessor
      a2 == IF shouldReprocess
            THEN ResetSubscriptions([a1 EXCEPT !.stateProcessor = BuildStateProcessor(a1)])
            ELSE a1
  IN IF a1.skipAliasing \/ a1.lastPlayerState = NoPlayerState \/ a1.topics = None THEN a1
     ELSE IF /\ shouldReprocess
             /\ a2.lastPlayerState.topics # None /\ ~a2.lastPlayerState.playing
          THEN OnPlayerState(a2, a2.lastPlayerState)
     ELSE a2

\* ------------------------------------------------------------- MessagePipeline
\* createPlayerListener: the variables of the closure (closed, resolveFn; called
\* of the invocation whose promise is pending), the renderDone the store holds,
\* the frame timer, the listener promises not yet resolved, how often each batch
\* was dispatched to the store, the batches the wrapped player has emitted, and
\* what the last step did
NewPlayerListener ==
  [closed |-> FALSE, resolveFn |-> FALSE, called |-> FALSE, renderDone |-> FALSE,
   timer |-> FALSE, pending |-> 0, got |-> [b \in 1..MaxBatches |-> 0],
   emitted |-> 0, did |-> "new"]

\* listener(listenerPlayerState), up to its await of the promise
PlayerListener(p, playerState) ==
  IF p.closed THEN [p EXCEPT !.did = "return"]
  ELSE IF p.resolveFn THEN [p EXCEPT !.did = "throw"]
  ELSE [p EXCEPT !.resolveFn = TRUE, !.called = FALSE, !.renderDone = TRUE,
                 !.pending = @ + 1,
                 !.got = IF playerState.messages = 0 THEN @
                         ELSE [@ EXCEPT ![playerState.messages] = Min(@ + 1, 2)],
                 !.did = "dispatch"]

\* renderDone()
RenderDoneImpl(p) ==
  IF p.called THEN [p EXCEPT !.did = "return"]
  ELSE [p EXCEPT !.called = TRUE, !.timer = TRUE, !.did = "renderDone"]

\* the callback renderDone gave to setTimeout
FrameTimeoutImpl(p) ==
  IF p.closed \/ ~p.resolveFn THEN [p EXCEPT !.timer = FALSE, !.did = "return"]
  ELSE [p EXCEPT !.timer = FALSE, !.resolveFn = FALSE, !.pending = @ - 1,
                 !.did = "resolve"]

\* the cleanup of the effect that set the listener: cleanupListener(), and the
\* dispatch that clears the store's renderDone
CleanupListenerImpl(p) ==
  [p EXCEPT !.closed = TRUE, !.resolveFn = FALSE, !.renderDone = FALSE,
            !.did = "cleanup"]

\* ------------------------------------------------------------- useIndexedDbRecents
MaxEntries == 5     \* "Max 5 entries"
MaxRecents == 2     \* calls of addRecent

\* a connection record: its id, and key for its sourceId and extra arguments
Recent(id, key) == [id |-> id, key |-> key]

\* what IndexedDB holds under "recents" when the hook mounts: nothing, records
\* with different sources, or a full list
StoredLists ==
  { <<>>, << Recent(1, 1) >>, << Recent(1, 1), Recent(2, 2) >>,
    << Recent(1, 1), Recent(2, 2), Recent(3, 3), Recent(4, 4), Recent(5, 5) >> }

\* the sources addRecent is called with: one that is stored already, one that is new
RecentKeys == {1, 6}

\* the hook before the component that uses it has rendered
NotMounted ==
  [mounted |-> FALSE, loading |-> TRUE, initial |-> <<>>, stored |-> <<>>,
   newRecentsRef |-> <<>>, recents |-> <<>>, added |-> 0, did |-> {}]

\* the first render: useAsync starts idbGet, loading is true
MountedWith(stored) == [NotMounted EXCEPT !.mounted = TRUE, !.initial = stored,
                                          !.stored = stored, !.did = {"mount"}]

\* the loop of save: the records of list that match none kept before them, up
\* to MaxEntries
RECURSIVE RecentsToSave(_, _)
RecentsToSave(list, kept) ==
  IF list = <<>> THEN kept
  ELSE LET exists == \E i \in 1..Len(kept) : kept[i].key = Head(list).key
       IN RecentsToSave(Tail(list),
                        IF ~exists /\ Len(kept) < MaxEntries THEN Append(kept, Head(list))
                        ELSE kept)

\* save without its test of loading
SaveNoLoadingTest(r, loading) ==
  LET recentsToSave == RecentsToSave(r.newRecentsRef, <<>>)
  IN [r EXCEPT !.recents = recentsToSave, !.stored = recentsToSave,
               !.did = @ \cup {"idbSet"}]

\* save, as created by the render in which loading had the given value
Save(r, loading) ==
  IF loading THEN r
  ELSE LET recentsToSave == RecentsToSave(r.newRecentsRef, <<>>)
       IN [r EXCEPT !.recents = recentsToSave, !.stored = recentsToSave,
                    !.did = @ \cup {"idbSet"}]

\* addRecent, as created by the render in which loading had the given value
AddRecentImpl(r, key, loading) ==
  Save([r EXCEPT !.newRecentsRef = << Recent(10 + r.added + 1, key) >> \o @,
                 !.added = @ + 1,
                 !.did = {"addRecent"}],
       loading)

\* idbGet has resolved: the render with loading false, and its layout effect
LoadedEffect(r) ==
  LET haveUnsavedRecents == Len(r.newRecentsRef) > 0
      r1 == [r EXCEPT !.loading = FALSE,
                      !.newRecentsRef = @ \o r.initial,
                      !.did = {"loaded"}]
  IN IF haveUnsavedRecents THEN Save(r1, FALSE)
     ELSE [r1 EXCEPT !.recents = r1.newRecentsRef]

\* ------------------------------------------------------------- PlayerProblemManager
MaxArrays == 3    \* arrays problems() may allocate

ProblemIds == {"x", "y"}
ProblemValues == {1, 2}

\* the predicates removeProblems is called with: the entries they hold of
Predicates == SUBSET (ProblemIds \X ProblemValues)

\* #problems = undefined
NoArray == [ref |-> 0, items |-> <<>>]

\* The fields after construction.  byId is #problemsById in insertion order,
\* problems is #problems, an array being its identity ref and its items; arrays
\* counts the arrays allocated.  ret is what the last call of problems()
\* returned, changed whether a problem was added, removed or all were cleared
\* since, and did is the last call with what it returned (for problems(),
\* whether the array is the one it had).
NewPlayerProblemManager ==
  [byId |-> <<>>, problems |-> NoArray, arrays |-> 0, ret |-> NoArray,
   changed |-> FALSE, did |-> <<"new">>]

\* Array.from(this.#problemsById.values())
ValuesOf(byId) == [i \in 1..Len(byId) |-> byId[i][2]]

\* Map.has
HasId(byId, id) == \E i \in 1..Len(byId) : byId[i][1] = id

\* Map.set: the entry of a key that is present keeps its place
MapSet(byId, id, problem) ==
  IF HasId(byId, id)
  THEN [i \in 1..Len(byId) |-> IF byId[i][1] = id THEN <<id, problem>> ELSE byId[i]]
  ELSE Append(byId, <<id, problem>>)

\* the entries left when those of D are deleted
RECURSIVE MapDelete(_, _)
MapDelete(byId, D) ==
  IF byId = <<>> THEN <<>>
  ELSE IF Head(byId) \in D THEN MapDelete(Tail(byId), D)
  ELSE <<Head(byId)>> \o MapDelete(Tail(byId), D)

\* problems()
ManagerProblems(m) ==
  LET arr == IF m.problems # NoArray THEN m.problems
             ELSE [ref |-> m.arrays + 1, items |-> ValuesOf(m.byId)]
  IN [m EXCEPT !.problems = arr,
               !.arrays = IF m.problems # NoArray THEN @ ELSE @ + 1,
               !.ret = arr,
               !.changed = FALSE,
               !.did = <<"problems", m.problems # NoArray>>]

\* addProblem that keeps the array it has
ManagerAddProblemKeepsArray(m, id, problem) ==
  [m EXCEPT !.byId = MapSet(@, id, problem),
            !.changed = TRUE,
            !.did = <<"addProblem">>]

\* addProblem(id, problem)
ManagerAddProblem(m, id, problem) ==
  [m EXCEPT !.byId = MapSet(@, id, problem),
            !.problems = NoArray,
            !.changed = TRUE,
            !.did = <<"addProblem">>]

\* hasProblem(id)
ManagerHasProblem(m, id) == [m EXCEPT !.did = <<"hasProblem", HasId(m.byId, id)>>]

\* removeProblem(id)
ManagerRemoveProblem(m, id) ==
  LET isChanged == HasId(m.byId, id)
  IN [m EXCEPT !.byId = MapDelete(@, { e \in ProblemIds \X ProblemValues : e[1] = id }),
               !.problems = IF isChanged THEN NoArray ELSE @,
               !.changed = @ \/ isChanged,
               !.did = <<"removeProblem", isChanged>>]

\* removeProblems(predicate)
ManagerRemoveProblems(m, predicate) ==
  LET isChanged == \E i \in 1..Len(m.byId) : m.byId[i] \in predicate
  IN [m EXCEPT !.byId = MapDelete(@, predicate),
               !.problems = IF isChanged THEN NoArray ELSE @,
               !.changed = @ \/ isChanged,
               !.did = <<"removeProblems", isChanged>>]

\* clear()
ManagerClear(m) ==
  [m EXCEPT !.byId = <<>>, !.problems = NoArray, !.changed = TRUE, !.did = <<"clear">>]

\* ------------------------------------------------------------- actions
\* the player after its constructor, on one of the sources S; c calls of public
\* methods and f rejections of the source are left, and lg says whether what the
\* listener receives is recorded
ConstructedFrom(S, c, f, lg) ==
  /\ state = "preinit" /\ nextState = "none" /\ runningState = FALSE
  /\ isPlaying = FALSE /\ listener = FALSE /\ speed = 1
  /\ start = None /\ end = None /\ lastTickMillis = FALSE /\ lastSeekEmitTime = 0
  /\ providerTopics = <<>> /\ allTopics = {} /\ allTopicsId = 0 /\ preloadTopics = {}
  /\ messages = <<>> /\ hasError = FALSE /\ lastRangeMillis = FALSE
  /\ lastMessageEvent = 0 /\ lastStamp = None /\ seekTarget = None
  /\ presence = "INITIALIZING" /\ currentTime = None /\ problems = {}
  /\ abort = FALSE /\ playbackIterator = NoIterator /\ blockLoader = FALSE
  /\ untilTime = None /\ isClosed = FALSE
  /\ emitCalling = FALSE /\ emitPending = FALSE
  /\ pc = "off" /\ tickEnd = None /\ msgEvents = <<>> /\ timer = FALSE
  /\ targetTime = None /\ playAllTopics = 0 /\ awaited = FALSE /\ aborted = FALSE
  /\ src \in S /\ blockLoading = "off" /\ calls = c /\ faults = f
  /\ activeLoops = 0 /\ closeStarted = FALSE /\ lastReq = "none" /\ reqs = 0 /\ fx = {}
  /\ call = "" /\ inListener = 0 /\ liveIters = 0 /\ obs = NoObs /\ seeks = <<>>
  /\ delivered = <<>> /\ logging = lg
  /\ alias = NewTopicAliasingPlayer
  /\ manager = NewPlayerProblemManager
  /\ pipeline = NewPlayerListener
  /\ recentsStore = NotMounted

Constructed(f, lg) == ConstructedFrom(Sources, MaxCalls, f, lg)

Init == Constructed(MaxFaults, FALSE)

\* err.name of the errors a call on the source rejects with
ErrorNames == {"AbortError", "Error"}

\* a public method is called: between two synchronous stretches of the player
Called(name) == [Begin(P, name) EXCEPT !.calls = @ - 1, !.seeks = <<>>]

CanCall == pc \notin SyncPcs /\ calls > 0

\* a promise the run loop awaits settles, or a timer or an event fires
Stepped == Begin(P, "")

\* the promise the run loop awaits has resolved, or the loop goes on
Resumed == Begin(P, "resume")

\* the promise the run loop awaits has rejected
Faulted == [Begin(P, "resume") EXCEPT !.faults = @ - 1, !.fx = {"fault"}]

SetListener ==
  /\ pc \notin SyncPcs
  /\ listener => calls > 0
  /\ Commit(SetListenerImpl(IF listener THEN Called("setListener")
                            ELSE Begin(P, "setListener")))

StartPlayback == CanCall /\ Commit(StartPlayImpl(Called("startPlayback"), None))

PlayUntil ==
  /\ CanCall
  /\ \E t \in UntilTimes :
       Commit(StartPlayImpl([Called("playUntil") EXCEPT !.obs.time = t], t))

PausePlayback == CanCall /\ Commit(PausePlaybackImpl(Called("pausePlayback")))

SetPlaybackSpeed ==
  /\ CanCall
  /\ \E s \in Speeds : Commit(SetPlaybackSpeedImpl(Called("setPlaybackSpeed"), s))

\* the clamped targets of two seekPlayback calls in a row, the second made
\* before the seek of the first has completed
SeeksAfter(this, r, t) == With(this, LAMBDA q :
  IF q.state \in {"preinit", "initialize"} \/ q.start = None THEN <<>>
  ELSE LET tt == ClampTime(t, q.start, q.end)
       IN IF Len(q.seeks) = 1 /\ tt # q.seeks[1] THEN <<q.seeks[1], tt>>
          ELSE IF Len(q.seeks) = 1 THEN q.seeks
          ELSE IF {"metrics.seek", "setState"} \subseteq r.fx THEN <<tt>>
          ELSE <<>>)

SeekPlayback ==
  /\ CanCall
  /\ \E t \in SeekTimes :
       LET q == [Begin(P, "seekPlayback") EXCEPT !.calls = @ - 1, !.obs.time = t]
           r == SeekPlaybackImpl(q, t)
       IN Commit([r EXCEPT !.seeks = SeeksAfter(q, r, t)])

SetSubscriptions ==
  /\ CanCall
  /\ \E subs \in SubLists :
       Commit(SetSubscriptionsImpl([Called("setSubscriptions") EXCEPT !.obs.subs = subs],
                                   subs))

Close == CanCall /\ Commit(CloseImpl(Called("close")))

RunLoop == pc = "loop" /\ Commit(LoopHead(Resumed))

RunIteratorReturn ==
  /\ pc = "loop_return"
  /\ \/ Commit([Resumed EXCEPT !.playbackIterator = NoIterator,
                               !.liveIters = IF playbackIterator.closed THEN @ ELSE @ - 1,
                               !.pc = "dispatch"])
     \/ faults > 0 /\ Commit(RunStateCatch(Faulted))

RunDispatch == pc = "dispatch" /\ Commit(Dispatch(Resumed))

Initialize ==
  /\ pc = "init_wait"
  /\ \/ Commit(InitializeResolved(Resumed))
     \/ faults > 0 /\ Commit(InitializeRejected(Faulted))

InitDelay == pc = "init_delay" /\ Commit(InitializeDelayed(Resumed))

StartPlayRead ==
  /\ pc = "startplay_next"
  /\ \/ Commit(StartPlayNext(Resumed))
     \/ faults > 0 /\ Commit(RunStateCatch(Faulted))

\* the 100 ms and 500 ms timers of #stateStartPlay and #tick
TickTimeout ==
  /\ pc \in {"startplay_next", "tick_next"} /\ timer
  /\ Commit(QueueEmitState([Stepped EXCEPT !.presence = "BUFFERING", !.timer = FALSE]))

\* the acknowledgment of a seek written as the seek's completion is, marker included
SeekAckTimeoutMarks ==
  /\ pc = "seek_wait" /\ timer
  /\ Commit(QueueEmitState([Stepped EXCEPT !.presence = "BUFFERING",
                                           !.messages = <<>>,
                                           !.currentTime = targetTime,
                                           !.lastSeekEmitTime = @ + 1,
                                           !.timer = FALSE]))

\* the 100 ms timer of #stateSeekBackfill
SeekAckTimeout ==
  /\ pc = "seek_wait" /\ timer
  /\ Commit(QueueEmitState([Stepped EXCEPT !.presence = "BUFFERING",
                                           !.messages = <<>>,
                                           !.currentTime = targetTime,
                                           !.timer = FALSE]))

SeekBackfillSettle ==
  /\ pc = "seek_wait"
  /\ \/ Commit(SeekResolved(Resumed))
     \/ aborted /\ Commit(SeekRejected(Resumed, "AbortError"))
     \/ faults > 0 /\ \E name \in ErrorNames : Commit(SeekRejected(Faulted, name))

ResetIterator ==
  /\ pc \in {"reset_return", "reset_stop"}
  /\ \/ pc = "reset_return" /\ Commit(ResetReturned(Resumed))
     \/ pc = "reset_stop" /\ Commit(ResetStopped(Resumed))
     \/ faults > 0 /\ \E name \in ErrorNames : Commit(ResetThrows(Faulted, name))

IdleWake == pc = "idle_wait" /\ aborted /\ Commit([Resumed EXCEPT !.pc = "loop"])

\* bufferedSource emits loadedRangesChange while #stateIdle listens
LoadedRangesChange == pc = "idle_wait" /\ ~aborted /\ Commit(QueueEmitState(Stepped))

PlayLoop == pc = "play_top" /\ \E range \in 1..MaxRange : Commit(PlayTop(Resumed, range))

TickRead ==
  /\ pc = "tick_next"
  /\ \/ Commit(TickNext(Resumed))
     \/ faults > 0 /\ Commit(PlayCatch(Faulted))

TickEmit ==
  /\ pc = "tick_emit" /\ awaited
  /\ \E sleep \in BOOLEAN : Commit(PlayAfterTick(TickFinish(Resumed), sleep))

PlayDelay == pc = "play_delay" /\ Commit([Resumed EXCEPT !.pc = "play_top"])

CloseAwait ==
  /\ pc \in ClosePcs
  /\ \/ Commit(CloseStep(Resumed))
     \/ faults > 0 /\ Commit(RunStateCatch(Faulted))

\* the progress callback of #startBlockLoading
BlockProgress ==
  /\ pc \notin SyncPcs /\ blockLoading = "on"
  /\ Commit(IF state = "play" THEN Stepped ELSE QueueEmitState(Stepped))

\* blockLoader.startLoading rejects: the catch of #blockLoadingProcess
BlockLoadFail ==
  /\ pc \notin SyncPcs /\ blockLoading = "on" /\ faults > 0
  /\ Commit(SetError([Faulted EXCEPT !.blockLoading = "failed"]))

\* debouncePromise: the call in flight has finished
EmitSettle ==
  /\ pc \notin SyncPcs /\ emitCalling
  /\ LET q == [Stepped EXCEPT !.emitCalling = FALSE, !.inListener = 0, !.awaited = TRUE]
     IN Commit(IF q.emitPending THEN StartEmit(q) ELSE q)

Next ==
  \/ SetListener \/ StartPlayback \/ PlayUntil \/ PausePlayback \/ SetPlaybackSpeed
  \/ SeekPlayback \/ SetSubscriptions \/ Close
  \/ RunLoop \/ RunIteratorReturn \/ RunDispatch \/ Initialize \/ InitDelay
  \/ StartPlayRead \/ TickTimeout \/ SeekAckTimeout \/ SeekBackfillSettle
  \/ ResetIterator \/ IdleWake \/ LoadedRangesChange \/ PlayLoop \/ TickRead
  \/ TickEmit \/ PlayDelay \/ CloseAwait \/ BlockProgress \/ BlockLoadFail \/ EmitSettle

Spec == Init /\ [][Next]_vars

\* The steps of the run loop: a promise it awaits settles (every call on the
\* source eventually returns), a delay elapses, or its synchronous code goes on.
RunStep ==
  \/ RunLoop \/ RunIteratorReturn \/ RunDispatch \/ Initialize \/ InitDelay
  \/ StartPlayRead \/ SeekBackfillSettle \/ ResetIterator \/ IdleWake \/ PlayLoop
  \/ TickRead \/ TickEmit \/ PlayDelay \/ CloseAwait

\* Every awaited call returns and the listener's promise settles; nothing is
\* assumed of timers, of the callers of the public methods or of the loaders.
FairSpec == Spec /\ WF_vars(RunStep) /\ WF_vars(EmitSettle)

\* Playback from the start to the end and nothing else: the subscriptions are
\* set before the listener, and startPlayback is called once the player idles.
SubscribeFirst == ~listener /\ SetSubscriptions

Listen == ~listener /\ SetListener

PlayFromIdle == pc = "idle_wait" /\ StartPlayback

NextPlay ==
  \/ SubscribeFirst \/ Listen \/ PlayFromIdle
  \/ RunLoop \/ RunDispatch \/ Initialize \/ InitDelay \/ StartPlayRead \/ TickTimeout
  \/ IdleWake \/ LoadedRangesChange \/ PlayLoop \/ TickRead \/ TickEmit \/ PlayDelay
  \/ BlockProgress \/ EmitSettle

SpecPlay ==
  /\ Constructed(0, TRUE) /\ [][NextPlay]_vars
  /\ WF_vars(RunStep) /\ WF_vars(EmitSettle)

\* playUntil and nothing after it: the player idles after its start, is sought
\* or not, and playUntil is then called once, with no transition pending.
SeekFromIdle == pc = "idle_wait" /\ ~isPlaying /\ untilTime = None /\ SeekPlayback

PlayUntilFromIdle == pc = "idle_wait" /\ nextState = "none" /\ PlayUntil

NextUntil ==
  \/ Listen \/ SeekFromIdle \/ PlayUntilFromIdle
  \/ RunLoop \/ RunIteratorReturn \/ RunDispatch \/ Initialize \/ InitDelay
  \/ StartPlayRead \/ TickTimeout \/ SeekAckTimeout \/ SeekBackfillSettle
  \/ ResetIterator \/ IdleWake \/ LoadedRangesChange \/ PlayLoop \/ TickRead
  \/ TickEmit \/ PlayDelay \/ BlockProgress \/ EmitSettle

SpecUntil ==
  /\ Constructed(0, FALSE) /\ [][NextUntil]_vars
  /\ WF_vars(RunStep) /\ WF_vars(EmitSettle)

\* Seeks and nothing else: once the player is initialized seekPlayback is called,
\* at any await of the run loop.
SeekAfterInit == start # None /\ SeekPlayback

NextSeek ==
  \/ Listen \/ SeekAfterInit
  \/ RunLoop \/ RunIteratorReturn \/ RunDispatch \/ Initialize \/ InitDelay
  \/ StartPlayRead \/ TickTimeout \/ SeekAckTimeout \/ SeekBackfillSettle
  \/ ResetIterator \/ IdleWake \/ LoadedRangesChange \/ BlockProgress \/ EmitSettle

SpecSeek ==
  /\ Constructed(0, FALSE) /\ [][NextSeek]_vars
  /\ WF_vars(RunStep) /\ WF_vars(EmitSettle)

\* Seeks before the start and nothing else: seekPlayback is called in preinit
\* or initialize, before the listener is set, while initialize() is awaited or
\* during the delay that follows it.
SeekBeforeStart == state \in {"preinit", "initialize"} /\ SeekPlayback

NextEarly ==
  \/ Listen \/ SeekBeforeStart
  \/ RunLoop \/ RunDispatch \/ Initialize \/ InitDelay \/ StartPlayRead \/ TickTimeout
  \/ SeekAckTimeout \/ SeekBackfillSettle \/ ResetIterator \/ LoadedRangesChange
  \/ BlockProgress \/ EmitSettle

SpecEarly ==
  /\ Constructed(0, FALSE) /\ [][NextEarly]_vars
  /\ WF_vars(RunStep) /\ WF_vars(EmitSettle)

\* startPlayback and nothing else: once the player is initialized startPlayback
\* is called, at any await of the run loop.
StartAfterInit == start # None /\ StartPlayback

NextStart ==
  \/ Listen \/ StartAfterInit
  \/ RunLoop \/ RunDispatch \/ Initialize \/ InitDelay \/ StartPlayRead \/ TickTimeout
  \/ IdleWake \/ LoadedRangesChange \/ PlayLoop \/ TickRead \/ TickEmit \/ PlayDelay
  \/ BlockProgress \/ EmitSettle

SpecStart ==
  /\ Constructed(0, FALSE) /\ [][NextStart]_vars
  /\ WF_vars(RunStep) /\ WF_vars(EmitSettle)

\* close() and what comes before it: once the player is initialized
\* startPlayback is called, and close() at any await of the run loop, before
\* or after it; the source may reject one call.
NextClose ==
  \/ Listen \/ StartAfterInit \/ Close
  \/ RunLoop \/ RunIteratorReturn \/ RunDispatch \/ Initialize \/ InitDelay
  \/ StartPlayRead \/ TickTimeout \/ IdleWake \/ LoadedRangesChange \/ PlayLoop
  \/ TickRead \/ TickEmit \/ PlayDelay \/ CloseAwait \/ BlockProgress
  \/ BlockLoadFail \/ EmitSettle

SpecClose ==
  /\ Init /\ [][NextClose]_vars
  /\ WF_vars(RunStep) /\ WF_vars(EmitSettle)

\* Playback that is paused and resumed: the subscriptions are set before the
\* listener, startPlayback is called when the player idles, and pausePlayback
\* while it plays, at any await of a tick.
MaxPauseCalls == 4

PauseInPlay == state = "play" /\ isPlaying /\ PausePlayback

NextPause ==
  \/ SubscribeFirst \/ Listen \/ PlayFromIdle \/ PauseInPlay
  \/ RunLoop \/ RunDispatch \/ Initialize \/ InitDelay \/ StartPlayRead \/ TickTimeout
  \/ IdleWake \/ LoadedRangesChange \/ PlayLoop \/ TickRead \/ TickEmit \/ PlayDelay
  \/ BlockProgress \/ EmitSettle

SpecPause ==
  /\ ConstructedFrom(Sources, MaxPauseCalls, 0, TRUE) /\ [][NextPause]_vars
  /\ WF_vars(RunStep) /\ WF_vars(EmitSettle)

\* Seek, then play: the subscriptions are set before the listener, and
\* seekPlayback and startPlayback are called when the player idles.
MaxStampCalls == 3

NextStamp ==
  \/ SubscribeFirst \/ Listen \/ SeekFromIdle \/ PlayFromIdle
  \/ RunLoop \/ RunIteratorReturn \/ RunDispatch \/ Initialize \/ InitDelay
  \/ StartPlayRead \/ TickTimeout \/ SeekAckTimeout \/ SeekBackfillSettle
  \/ ResetIterator \/ IdleWake \/ LoadedRangesChange \/ PlayLoop \/ TickRead
  \/ TickEmit \/ PlayDelay \/ BlockProgress \/ EmitSettle

SpecStamp ==
  /\ ConstructedFrom(Sources, MaxStampCalls, 0, FALSE) /\ [][NextStamp]_vars
  /\ WF_vars(RunStep) /\ WF_vars(EmitSettle)

\* Initialization and nothing else, on sources that differ in the topic list and
\* in the number of problems initialize() resolves with.
MaxTopics == 3
SchemaNames == {"X", "Y"}

TopicLists ==
  UNION { [1..n -> Topics \X SchemaNames] : n \in 0..MaxTopics }

TopicSources ==
  { [SourceA EXCEPT !.topics = tl, !.initProblems = n] :
      tl \in TopicLists, n \in {0, 1} }

NextTopics ==
  \/ Listen \/ RunLoop \/ RunDispatch \/ Initialize \/ InitDelay \/ EmitSettle

SpecTopics == ConstructedFrom(TopicSources, MaxCalls, 0, FALSE) /\ [][NextTopics]_vars

\* ------------------------------------------------------------- TopicAliasingPlayer: actions
\* a step of the TopicAliasingPlayer; the wrapped player is left as it is
AliasStep(a) == alias' = a /\ UNCHANGED << playerVars, manager, pipeline, recentsStore >>

AliasCalled(name) == [alias EXCEPT !.did = {name}]

\* TopicAliasingPlayer.setListener, which the wrapped player accepts once
AliasSetListener ==
  ~alias.listener /\ AliasStep([AliasCalled("setListener") EXCEPT !.listener = TRUE])

AliasSetAliasFunctions ==
  \E fs \in BOOLEAN :
    AliasStep([AliasCalled("setAliasFunctions") EXCEPT !.aliasFunctions = fs,
                                                        !.skipAliasing = ~fs])

AliasSetGlobalVariables ==
  \E v \in GlobalVariables :
    AliasStep(SetGlobalVariablesImpl(AliasCalled("setGlobalVariables"), v))

\* the wrapped player calls the listener it was given
WrappedPlayerEmits ==
  /\ alias.listener
  /\ \E ps \in PlayerStates : AliasStep(OnPlayerState(AliasCalled("player"), ps))

\* the promise of the downstream listener resolves; runExclusive releases the gate
ListenerResolves ==
  /\ alias.inFlight > 0
  /\ AliasStep([AliasCalled("resolved") EXCEPT !.inFlight = @ - 1, !.locked = FALSE])

AliasSetSubscriptions ==
  \E subs \in SubscriptionSets :
    AliasStep(AliasSetSubscriptionsImpl(AliasCalled("setSubscriptions"), subs))

NextAlias ==
  \/ AliasSetListener \/ AliasSetAliasFunctions \/ AliasSetGlobalVariables
  \/ WrappedPlayerEmits \/ ListenerResolves

SpecAlias == Constructed(0, FALSE) /\ [][NextAlias]_vars

\* TopicAliasingPlayer with its subscriptions: alias functions are installed and
\* removed, the subscriptions are set, the wrapped player emits.
NextPassthrough ==
  \/ AliasSetListener \/ AliasSetAliasFunctions \/ AliasSetSubscriptions
  \/ AliasSetGlobalVariables \/ WrappedPlayerEmits \/ ListenerResolves

SpecPassthrough == Constructed(0, FALSE) /\ [][NextPassthrough]_vars

\* ------------------------------------------------------------- MessagePipeline: actions
\* A step of TopicAliasingPlayer with the MessagePipeline's listener downstream:
\* the call of the listener is carried out, and when its promise settles at once
\* (the listener returns or throws before its await) runExclusive releases the
\* gate.
Piped(a, p0) ==
  LET called == "listener" \in a.did
      p == IF called THEN PlayerListener(p0, a.out.state) ELSE p0
  IN /\ pipeline' = p
     /\ alias' = IF called /\ p.did \in {"return", "throw"}
                 THEN [a EXCEPT !.inFlight = @ - 1, !.locked = FALSE]
                 ELSE a
     /\ UNCHANGED << playerVars, manager, recentsStore >>

\* the effect of MessagePipelineProvider: createPlayerListener, player.setListener
PipelineCalled == [pipeline EXCEPT !.did = ""]

PipelineSetListener ==
  /\ ~alias.listener
  /\ Piped([AliasCalled("setListener") EXCEPT !.listener = TRUE], PipelineCalled)

PipelineSetAliasFunctions ==
  \E fs \in BOOLEAN :
    Piped([AliasCalled("setAliasFunctions") EXCEPT !.aliasFunctions = fs,
                                                    !.skipAliasing = ~fs],
          PipelineCalled)

\* the layout's global variables change
PipelineSetGlobalVariables ==
  \E v \in {0, 1} :
    Piped(SetGlobalVariablesImpl(AliasCalled("setGlobalVariables"), v), PipelineCalled)

\* the initialized wrapped player emits a state, with a new batch of messages or
\* with none
PipelineEmits ==
  /\ alias.listener
  /\ \E ps \in PlayerStatesWith({0, pipeline.emitted + 1} \cap 0..MaxBatches) :
       /\ ps.topics = 1
       /\ Piped(OnPlayerState(AliasCalled("player"), ps),
                [PipelineCalled EXCEPT !.emitted = IF ps.messages > @ THEN ps.messages
                                                   ELSE @])

PipelineStep(p) == pipeline' = p /\ UNCHANGED << playerVars, alias, manager, recentsStore >>

\* the layout effect that calls the store's renderDone once the state has rendered
PipelineRenderDone ==
  /\ pipeline.renderDone /\ ~pipeline.called
  /\ PipelineStep(RenderDoneImpl(pipeline))

\* the frame timer fires; when it resolves the listener's promise, runExclusive
\* releases the gate
PipelineFrameTimeout ==
  /\ pipeline.timer
  /\ pipeline' = FrameTimeoutImpl(pipeline)
  /\ alias' = IF pipeline'.did = "resolve"
              THEN [AliasCalled("resolved") EXCEPT !.inFlight = @ - 1, !.locked = FALSE]
              ELSE alias
  /\ UNCHANGED << playerVars, manager, recentsStore >>

\* the effect is cleaned up: the player or the store is replaced, or the provider
\* unmounts
PipelineCleanup ==
  /\ alias.listener /\ ~pipeline.closed
  /\ PipelineStep(CleanupListenerImpl(pipeline))

NextPipeline ==
  \/ PipelineSetListener \/ PipelineSetAliasFunctions \/ PipelineSetGlobalVariables
  \/ PipelineEmits \/ PipelineRenderDone \/ PipelineFrameTimeout \/ PipelineCleanup

\* The layout effect runs after every render and timers fire.
SpecPipeline ==
  /\ Constructed(0, FALSE) /\ [][NextPipeline]_vars
  /\ WF_vars(PipelineRenderDone) /\ WF_vars(PipelineFrameTimeout)

\* ------------------------------------------------------------- useIndexedDbRecents: actions
RecentsStep(r) == recentsStore' = r /\ UNCHANGED << playerVars, alias, manager, pipeline >>

Mount ==
  /\ ~recentsStore.mounted
  /\ \E stored \in StoredLists : RecentsStep(MountedWith(stored))

\* addRecent is called, through the callback of the last render or, once the
\* load has completed, through one a consumer kept from a render before it
AddRecent ==
  /\ recentsStore.mounted /\ recentsStore.added < MaxRecents
  /\ \E key \in RecentKeys, loading \in {recentsStore.loading, TRUE} :
       RecentsStep(AddRecentImpl(recentsStore, key, loading))

\* a consumer calls save
SaveRecents ==
  /\ recentsStore.mounted
  /\ \E loading \in {recentsStore.loading, TRUE} :
       RecentsStep(Save([recentsStore EXCEPT !.did = {"save"}], loading))

\* idbGet resolves with the stored records
LoadResolves ==
  /\ recentsStore.mounted /\ recentsStore.loading
  /\ RecentsStep(LoadedEffect(recentsStore))

NextRecents == Mount \/ AddRecent \/ SaveRecents \/ LoadResolves

SpecRecents == Constructed(0, FALSE) /\ [][NextRecents]_vars

\* ------------------------------------------------------------- PlayerProblemManager: actions
\* a call on the PlayerProblemManager; the players are left as they are
ManagerStep(m) == manager' = m /\ UNCHANGED << playerVars, alias, pipeline, recentsStore >>

Problems ==
  /\ manager.problems = NoArray => manager.arrays < MaxArrays
  /\ ManagerStep(ManagerProblems(manager))

AddProblem ==
  \E id \in ProblemIds, problem \in ProblemValues :
    ManagerStep(ManagerAddProblem(manager, id, problem))

HasProblem == \E id \in ProblemIds : ManagerStep(ManagerHasProblem(manager, id))

RemoveProblem == \E id \in ProblemIds : ManagerStep(ManagerRemoveProblem(manager, id))

RemoveProblems ==
  \E predicate \in Predicates : ManagerStep(ManagerRemoveProblems(manager, predicate))

Clear == ManagerStep(ManagerClear(manager))

NextProblems ==
  \/ Problems \/ AddProblem \/ HasProblem \/ RemoveProblem \/ RemoveProblems \/ Clear

SpecProblems == Constructed(0, FALSE) /\ [][NextProblems]_vars

\* ------------------------------------------------------------- claims

\* C1: at most one run loop, and so at most one state handler, is active at any
\* time, and #runningState says whether one is: a transition requested while a
\* handler runs starts no second loop.
C1_OneRunLoop == activeLoops <= 1 /\ (runningState <=> activeLoops = 1)

\* C1 witness: a public method has requested a transition while a handler was
\* suspended at an await.
C1_Witness ==
  /\ call = "seekPlayback" /\ "setState" \in fx
  /\ pc \notin SyncPcs /\ pc # "off" /\ activeLoops = 1

\* C2: a pending close request stays pending until the close state starts; no
\* step replaces it by another request.
C2_CloseStaysPending ==
  [][nextState = "close" =>
       \/ nextState' = "close"
       \/ nextState' = "none" /\ state' = "close"]_vars

\* C2 witness: seekPlayback requested a transition while close was pending and
\* the request was dropped.
C2_Witness == call = "seekPlayback" /\ "ignored" \in fx /\ nextState = "close"

\* C3 (as claimed): once the close state has started, no other state is started,
\* in particular when no handler has thrown.
C3_CloseIsTerminal == closeStarted /\ ~hasError => state = "close"

C5_LatestWins ==
  /\ []("start" \in fx /\ state # "close" => state = lastReq)
  /\ [][/\ nextState # "none"
        /\ call' = "resume" /\ "fault" \notin fx'
        /\ \/ pc = "startplay_next" /\ IterNextIdx(src.items, playbackIterator) # 0
           \/ pc = "seek_wait"
           \/ pc = "tick_next"
        => /\ pc' = "loop"
           /\ currentTime' = currentTime
           /\ messages' = messages
           /\ lastSeekEmitTime' = lastSeekEmitTime]_vars

\* C5 witness: a state starts after two or more requests were made during the
\* previous handler.
C5_Witness == "start" \in fx /\ obs.reqs >= 2 /\ state = lastReq /\ state # "close"

\* C6 (as claimed): seekPlayback(t1) and then, before that seek has completed,
\* seekPlayback(t2) with another clamped target: the request that is outstanding
\* is aborted or is the one for t2, and when no call on the source fails the
\* player comes to rest in idle at t2 without an error.
C6_SecondSeekWins ==
  Len(seeks) = 2 /\ faults = MaxFaults =>
    /\ ~hasError
    /\ pc = "seek_wait" => aborted \/ targetTime = seeks[2]
    /\ pc = "idle_wait" /\ nextState = "none" => currentTime = seeks[2]

\* the source's messages on the given topics received in (from, to], in source order
MessagesIn(topics, from, to) ==
  SortedSeq({ i \in 1..Len(src.items) :
                /\ src.items[i].type = "message-event"
                /\ src.items[i].topic \in topics
                /\ from < src.items[i].time /\ src.items[i].time <= to })

\* C7 (as claimed): a tick that reaches its end with no transition pending has
\* moved currentTime forward to the end of its window, and its batch is exactly
\* the source's messages on the iterator's topics received in that window.
C7_TickWindow ==
  obs.tick /\ ~obs.pending =>
    /\ obs.to > obs.prev
    /\ currentTime = obs.to
    /\ obs.batch = MessagesIn(obs.topics, obs.prev, obs.to)

\* C8: once startPlayback has been called on the idle player, playback reaches
\* the end of the source and the player idles there, not playing, the listener
\* having received every message of the subscribed topics once and in order.
C8_PlaysToEnd ==
  (call = "startPlayback" /\ "setState" \in fx)
    ~> /\ state = "idle" /\ pc = "idle_wait" /\ ~isPlaying /\ currentTime = end
       /\ messages = <<>>
       /\ delivered = MessagesIn(TopicNames(allTopics), start - 1, end)

\* C8 witness: playback has ended, and the listener has received three or more
\* messages, the last of them in a tick.
C8_Witness ==
  /\ state = "idle" /\ pc = "idle_wait" /\ ~isPlaying /\ currentTime = end
  /\ lastReq = "idle" /\ playAllTopics # 0
  /\ Len(delivered) >= 3
  /\ delivered = MessagesIn(TopicNames(allTopics), start - 1, end)

\* C9 (as claimed): while a tick reads from the playback iterator with no
\* transition pending, the iterator is one created with the topic selection of
\* the last setSubscriptions call.  The tick during which the selection changes
\* is left aside: the play state looks for a change after each tick.
C9_IteratorFollowsSubscriptions ==
  pc = "tick_next" /\ nextState = "none" /\ allTopicsId = playAllTopics =>
    playbackIterator.sel = allTopicsId

\* C10: a setSubscriptions call whose two topic maps are equal to the current
\* ones requests no transition, makes no call on the block loader, queues no
\* emission and leaves #allTopics (and its identity), #preloadTopics,
\* #seekTarget, #untilTime and the playback iterator as they were.
C10_EqualSubscriptionsNoOp ==
  [][/\ call' = "setSubscriptions"
     /\ AllTopicsOf(obs'.subs) = allTopics
     /\ PreloadTopicsOf(obs'.subs) = preloadTopics
     => /\ fx' \cap {"setState", "ignored", "emit", "listener", "blockLoader.setTopics"} = {}
        /\ UNCHANGED << nextState, lastReq, allTopics, allTopicsId, preloadTopics,
                        seekTarget, untilTime, playbackIterator, emitCalling,
                        emitPending, pc, abort, aborted, lastTickMillis,
                        lastRangeMillis >>]_vars

\* C10 witness: the idle, paused player has been given the subscriptions it
\* already had, and the call did nothing but count itself.
C10_Witness ==
  /\ call = "setSubscriptions" /\ fx = {"metrics.setSubscriptions"}
  /\ AllTopicsOf(obs.subs) = allTopics /\ PreloadTopicsOf(obs.subs) = preloadTopics
  /\ allTopics # {} /\ state = "idle" /\ pc = "idle_wait" /\ ~isPlaying

\* C11: seekPlayback(t) on a player past its initialize state, with t clamped to
\* [start, end] equal to currentTime, does nothing: no metrics event, no
\* transition request, no emission, no request to the source, and #seekTarget,
\* #untilTime, #lastTickMillis and #lastRangeMillis stay as they were.
C11_SeekToCurrentTimeNoOp ==
  [][/\ call' = "seekPlayback"
     /\ state \notin {"preinit", "initialize"}
     /\ start # None /\ end # None /\ currentTime # None
     /\ ClampTime(obs'.time, start, end) = currentTime
     => /\ fx' = {}
        /\ UNCHANGED << state, nextState, lastReq, reqs, seekTarget, untilTime,
                        lastTickMillis, lastRangeMillis, currentTime, messages,
                        isPlaying, pc, abort, aborted, runningState, emitCalling,
                        emitPending, playbackIterator >>]_vars

\* C11 witness: seekPlayback was called on the idle player with a time beyond
\* the end while currentTime was the end, no seek being under way.
C11_Witness ==
  /\ call = "seekPlayback" /\ fx = {} /\ state = "idle" /\ pc = "idle_wait"
  /\ obs.time > end /\ currentTime = end /\ seekTarget = None /\ nextState = "none"

\* C12 (as claimed): once playUntil(t) has requested the play state from the idle
\* player, and no other command follows, playback pauses by itself: the player
\* idles, not playing, with #untilTime cleared, and #untilTime is cleared with
\* currentTime at the bound.
C12_PlayUntilPauses ==
  /\ (call = "playUntil" /\ "setState" \in fx)
       ~> (/\ state = "idle" /\ pc = "idle_wait" /\ ~isPlaying /\ untilTime = None)
  /\ [][untilTime # None /\ untilTime' = None => currentTime' = untilTime]_vars

\* C13: pausePlayback() on a player that is not playing does nothing: no metrics
\* event, no transition request, no emission, and no field of the player changes.
C13_PauseWhenPausedNoOp ==
  [][call' = "pausePlayback" /\ ~isPlaying
     => /\ fx' = {}
        /\ UNCHANGED << state, nextState, runningState, isPlaying, listener, speed,
                        start, end, lastTickMillis, lastSeekEmitTime, providerTopics,
                        allTopics, allTopicsId, preloadTopics, messages, hasError,
                        lastRangeMillis, lastMessageEvent, lastStamp, seekTarget,
                        presence, currentTime, problems, abort, playbackIterator,
                        blockLoader, untilTime, isClosed, emitCalling, emitPending,
                        pc, aborted, lastReq, reqs >>]_vars

\* C13 witness: pausePlayback was called on the idle player, which was not
\* playing although a playUntil bound was still set; the bound is still set.
C13_Witness ==
  /\ call = "pausePlayback" /\ fx = {} /\ ~isPlaying
  /\ state = "idle" /\ pc = "idle_wait" /\ untilTime # None

\* C14: when a state handler throws (a call it awaits rejects and the rejection
\* is not a swallowed cancellation), the player sets #hasError, records the
\* problem global-error, stops playing and queues an emission; and a PlayerState
\* passed to the listener while #hasError is set has presence ERROR, progress {}
\* and no activeData.
C14_ErrorPolicy ==
  /\ [][/\ "fault" \in fx' /\ blockLoading' = blockLoading
        /\ ~(state = "seek-backfill" /\ nextState # "none")
        => /\ hasError' /\ <<"global-error", 0>> \in problems'
           /\ ~isPlaying' /\ "emit" \in fx']_vars
  /\ []("listener" \in fx /\ hasError
          => obs.emit = "ERROR" /\ ~obs.progress /\ ~obs.active)

\* C14 witness: a read of the playback iterator has rejected during a tick of the
\* playing player, and the listener has been called with the error.
C14_Witness ==
  /\ "fault" \in fx /\ state = "play" /\ hasError /\ ~isPlaying
  /\ "listener" \in fx /\ obs.emit = "ERROR" /\ currentTime # None

\* C15 (as claimed): once #hasError is set on a player that has been
\* initialized, the player does not play and the run loop starts no state but
\* close.
C15_ErrorsAreFatal ==
  /\ [](hasError => ~isPlaying)
  /\ [][hasError /\ currentTime # None /\ "start" \in fx' => state' = "close"]_vars

\* C16: when getBackfillMessages rejects during seek-backfill, an AbortError with
\* a transition pending is swallowed: #hasError and the problems are as before,
\* nothing is emitted and the run loop goes on to the pending transition; any
\* other error, and an AbortError with no transition pending, makes the player
\* errored and ends the run loop.
C16_AbortIsSwallowed ==
  [][pc = "seek_wait" /\ fx' \cap ErrorNames # {}
     => IF nextState # "none" /\ "AbortError" \in fx'
        THEN /\ hasError' = hasError /\ problems' = problems /\ "emit" \notin fx'
             /\ pc' = "loop" /\ nextState' = nextState
        ELSE /\ hasError' /\ <<"global-error", 0>> \in problems' /\ "emit" \in fx'
             /\ pc' = "off"]_vars

\* C16 witness: the request of a seek was aborted by a second seekPlayback and
\* rejected with an AbortError, which was swallowed.
C16_Witness ==
  /\ "AbortError" \in fx /\ "fault" \notin fx /\ state = "seek-backfill"
  /\ pc = "loop" /\ nextState = "seek-backfill" /\ ~hasError /\ seekTarget # None

\* C17: the listener is never called while an earlier call of it is unresolved.
\* A trigger that arrives while an emission is in flight calls nothing and leaves
\* one emission pending, whatever the number of triggers; the pending emission
\* is made, once, when the one in flight has resolved.
C17_EmissionsSerialized ==
  /\ [](inListener <= 1)
  /\ [][emitCalling /\ "emit" \in fx'
         => "listener" \notin fx' /\ emitCalling' /\ emitPending']_vars
  /\ [][listener /\ emitPending /\ ~emitPending'
         => "listener" \in fx' /\ "emit" \notin fx' /\ inListener' = 1]_vars

\* C17 witness: setPlaybackSpeed has queued an emission while the listener's
\* promise for the previous one, and a block loading progress update before it,
\* had not resolved.
C17_Witness ==
  /\ call = "setPlaybackSpeed" /\ "emit" \in fx /\ "listener" \notin fx
  /\ emitCalling /\ emitPending /\ inListener = 1 /\ listener

\* C18: during playback every batch a tick writes to the outgoing buffer reaches
\* the listener once: a tick writes to an empty buffer, what was there having been
\* passed to the listener, and what the listener has received followed by what
\* waits in the buffer is the source's messages up to currentTime, each once and
\* in order, however long the listener's promises take.
C18_NoBatchLost ==
  /\ [][obs'.tick => messages = <<>>]_vars
  /\ [](state \in {"idle", "play"}
          => delivered \o messages
               = MessagesIn(TopicNames(allTopics), start - 1, currentTime))

\* C18 witness: a tick has written a batch while an emission was in flight; the
\* batch waits in the buffer for the emission that is pending.
C18_Witness ==
  /\ obs.tick /\ obs.batch # <<>> /\ messages = obs.batch
  /\ emitCalling /\ emitPending /\ inListener = 1 /\ delivered # <<>>

\* C19: TopicAliasingPlayer never calls the downstream listener while an earlier
\* call of it has not resolved.  A state that arrives while the gate is held,
\* from the wrapped player or re-emitted by setGlobalVariables, is dropped: the
\* listener is not called with it, then or when the gate is released.
C19_GateDropsOverlap ==
  /\ [](alias.inFlight <= 1 /\ (alias.locked <=> alias.inFlight = 1))
  /\ [][alias.locked /\ alias'.did \cap {"player", "setGlobalVariables"} # {}
         => /\ "listener" \notin alias'.did
            /\ alias'.inFlight = alias.inFlight
            /\ alias'.lastPlayerState = alias.lastPlayerState]_vars
  /\ [][alias.locked /\ ~alias'.locked
         => "listener" \notin alias'.did /\ alias'.inFlight = 0]_vars

\* C19 witness: setGlobalVariables has changed the alias mapping while a state of
\* the wrapped player was with the listener; its re-emission of the last state
\* was dropped.
C19_Witness ==
  /\ {"setGlobalVariables", "resetSubscriptions", "dropped"} \subseteq alias.did
  /\ alias.locked /\ alias.inFlight = 1

\* C20: at most one playback iterator is live; a new one is created only when
\* none is live, the return() of the previous one having resolved; and when the
\* handler of a state other than idle and play begins, the iterator has been
\* returned and #playbackIterator cleared.
C20_IteratorOwned ==
  /\ [](/\ liveIters <= 1
        /\ (liveIters = 1 <=> playbackIterator.ex /\ ~playbackIterator.closed)
        /\ (pc = "dispatch" /\ state \notin {"idle", "play"}
              => ~playbackIterator.ex /\ liveIters = 0))
  /\ [][liveIters' > liveIters => liveIters = 0]_vars

\* C20 witness: the iterator of the idle or playing player has been returned and
\* cleared, and the handler of seek-backfill is about to begin.
C20_Witness ==
  /\ pc = "dispatch" /\ state = "seek-backfill" /\ fx = {} /\ call = "resume"
  /\ ~playbackIterator.ex /\ liveIters = 0 /\ currentTime # None

\* C21: once initialization has set the bounds, start <= currentTime <= end in
\* every state, whatever times seekPlayback and playUntil are called with and
\* whether the seek target was recorded before or after initialization; the
\* target of a seek-backfill and the end of a tick's window are in the bounds too.
C21_TimeInBounds ==
  /\ currentTime # None
       => start # None /\ end # None /\ start <= currentTime /\ currentTime <= end
  /\ pc = "seek_wait" => start <= targetTime /\ targetTime <= end
  /\ pc \in {"tick_next", "tick_emit"} => start <= tickEnd /\ tickEnd <= end

\* C21 witness: seekPlayback was called before initialization with a time past
\* the end of the source, and initialization has set currentTime to the end.
C21_Witness ==
  /\ pc = "init_delay" /\ call = "resume" /\ seeks = <<>>
  /\ seekTarget = end /\ currentTime = end /\ end # None

\* C22: #lastSeekEmitTime, the lastSeekTime of activeData, changes in exactly one
\* step: getBackfillMessages of a seek-backfill resolves and no transition is
\* pending.  The acknowledgment after the timeout, a backfill that is cancelled,
\* fails or is superseded, ticks and the public methods leave it as it was.
C22_SeekMarker ==
  [][lastSeekEmitTime' # lastSeekEmitTime
       <=> /\ pc = "seek_wait" /\ nextState = "none"
           /\ call' = "resume" /\ fx' \cap (ErrorNames \cup {"fault"}) = {}]_vars

\* C22 witness: the backfill of a seek has resolved while an earlier emission was
\* still with the listener, and the marker has changed for the first time.
C22_Witness ==
  /\ "seeked" \in fx /\ lastSeekEmitTime = 1 /\ pc = "reset_return"
  /\ currentTime = targetTime /\ presence = "PRESENT" /\ ~timer
  /\ emitCalling /\ emitPending /\ messages = msgEvents

\* the names of the topics of a list
NamesOf(topics) == { topics[i][1] : i \in 1..Len(topics) }

\* C23: whatever topic list initialize() resolves with, the topics the player
\* publishes have one entry per distinct name, the first entry of the list with
\* that name; one problem is added for each entry dropped, next to those the
\* source reported; and initialization has not failed: #hasError is false and
\* the presence is PRESENT.
C23_FirstTopicKept ==
  pc = "init_delay" =>
    /\ NamesOf(providerTopics) = NamesOf(src.topics)
    /\ Len(providerTopics) = Cardinality(NamesOf(src.topics))
    /\ \A i \in 1..Len(providerTopics) :
         \E j \in 1..Len(src.topics) :
           /\ providerTopics[i] = src.topics[j]
           /\ \A k \in 1..(j-1) : src.topics[k][1] # src.topics[j][1]
    /\ Cardinality({ p \in problems : p[1] = "init-problem" })
         = src.initProblems + Len(src.topics) - Cardinality(NamesOf(src.topics))
    /\ ~hasError /\ presence = "PRESENT"

\* C23 witness: the source listed three topics of one name with two schema
\* names; the first is published and two problems were added.
C23_Witness ==
  /\ pc = "init_delay" /\ src.initProblems = 0
  /\ src.topics = << <<"a", "X">>, <<"a", "Y">>, <<"a", "X">> >>
  /\ providerTopics = << <<"a", "X">> >>
  /\ Cardinality(problems) = 2

C25_OneListener ==
  /\ [][call' = "setListener" /\ listener
         => /\ fx' = {"throw"}
            /\ UNCHANGED << state, nextState, runningState, isPlaying, listener, speed,
                            start, end, lastTickMillis, lastSeekEmitTime, providerTopics,
                            allTopics, allTopicsId, preloadTopics, messages, hasError,
                            lastRangeMillis, lastMessageEvent, lastStamp, seekTarget,
                            presence, currentTime, problems, abort, playbackIterator,
                            blockLoader, untilTime, isClosed, emitCalling, emitPending,
                            pc, aborted, lastReq, reqs, activeLoops >>]_vars
  /\ [][call' = "setListener" /\ ~listener => listener' /\ "throw" \notin fx']_vars

\* C25 witness: setListener was called on the idle player, which had been
\* initialized for its first listener, and threw.
C25_Witness ==
  /\ call = "setListener" /\ fx = {"throw"} /\ listener
  /\ state = "idle" /\ pc = "idle_wait" /\ lastReq = "idle" /\ nextState = "none"

\* C26 (as claimed): when a call awaited by the state handler in flight rejects
\* while a close request is pending, the close state is still run and isClosed
\* resolves.
C26_CloseSurvivesError ==
  (nextState = "close" /\ "fault" \in fx) ~> (state = "close" /\ isClosed)

\* C27 (as claimed): a seekPlayback(t) that is accepted after initialization (it
\* sets #seekTarget to t clamped and requests seek-backfill) and is followed by
\* no other call leads, unless the player becomes errored, to a backfill
\* completed at that time: getBackfillMessages resolves for it and currentTime
\* is the clamped t.
C27_NoSeekLost ==
  \A t \in 1..EndTime :
    (/\ call = "seekPlayback" /\ {"metrics.seek", "setState"} \subseteq fx
     /\ calls = 0 /\ seekTarget = t)
      ~> (hasError \/ ("seeked" \in fx /\ currentTime = t))

\* C28 (as claimed): a startPlayback() that sets #isPlaying while the player is
\* not idle, or while a state is queued, and so requests no transition itself,
\* leads to the play state being entered with #isPlaying still set, when no
\* other method is called and the player does not become errored.
C28_StartIsHonoured ==
  (/\ call = "startPlayback" /\ "metrics.play" \in fx /\ "setState" \notin fx
   /\ isPlaying)
    ~> (hasError \/ (state = "play" /\ isPlaying))

\* C29 (as claimed): pausing during a tick and resuming loses no message:
\* whenever the player idles or plays, before a pause or after, what the
\* listener has received followed by what waits in the outgoing buffer is the
\* source's messages on the subscribed topics up to currentTime, each once.
C29_PauseLosesNothing ==
  state \in {"idle", "play"}
    => delivered \o messages = MessagesIn(TopicNames(allTopics), start - 1, currentTime)

\* the playback iterator has yielded a stamp of the given time
YieldedStamp(it, t) ==
  \E i \in 1..(it.pos - 1) :
    /\ src.items[i].type = "stamp" /\ src.items[i].time = t
    /\ Visible(src.items[i], it)

\* C30 (as claimed): a tick that ends on a watermark at or after the end of its
\* window, at its start or in its loop, ends on one that the current playback
\* iterator has yielded, and its batch is the messages of that iterator's topics
\* inside the window: none is left for a later tick.
C30_StampOfIterator ==
  pc = "tick_emit" /\ lastStamp # None /\ lastStamp >= tickEnd =>
    /\ YieldedStamp(playbackIterator, lastStamp)
    /\ msgEvents = MessagesIn(playbackIterator.topics, currentTime, tickEnd)

\* C31 (as claimed): the playUntil bound is defined only while the player is
\* playing: in every state with #isPlaying false, #untilTime is undefined.
C31_UntilOnlyWhilePlaying == ~isPlaying => untilTime = None

\* C32 (as claimed): once initialized, the seek target is defined only while a
\* seek-backfill is pending or running: whenever the idle or the play handler
\* runs and no transition is pending, #seekTarget is undefined.
C32_SeekTargetOnlyWhileSeeking ==
  state \in {"idle", "play"} /\ nextState = "none" /\ pc \notin SyncPcs
    => seekTarget = None

\* C33: the assertion at the start of #stateIdle never fails: whenever the run
\* loop is about to start the idle handler, no abort controller is registered.
C33_IdleStartsWithoutController == pc = "dispatch" /\ state = "idle" => ~abort

\* the idle handler is about to start after a transition request has aborted
\* and cleared the controller that seek-backfill or idle had registered
C33_Witness == pc = "dispatch" /\ state = "idle" /\ aborted /\ ~abort

\* C34: the invariant errors of #tick and #stateStartPlay are unreachable:
\* whenever the play handler is at the head of its loop, and whenever a tick
\* awaits next(), a playback iterator exists; whenever the run loop is about to
\* start the start-play handler, none exists.
C34_IteratorWhereExpected ==
  /\ state = "play" /\ pc \in {"play_top", "tick_next"} => playbackIterator.ex
  /\ state = "start-play" /\ pc = "dispatch" => ~playbackIterator.ex

\* a tick awaits next() of an iterator that a seek or a reset has created
C34_Witness ==
  /\ state = "play" /\ pc = "tick_next"
  /\ playbackIterator.ex /\ playbackIterator.from > start

\* seekPlayback in preinit or initialize requests no transition, leaves
\* currentTime alone and records its argument, replacing an earlier one
EarlySeekOnlyRecords ==
  [][call' = "seekPlayback" /\ state \in {"preinit", "initialize"}
       => /\ seekTarget' = obs'.time
          /\ nextState' = nextState /\ reqs' = reqs /\ "setState" \notin fx'
          /\ state' = state /\ currentTime' = currentTime]_vars

\* with a target recorded, start-play requests seek-backfill and returns: it
\* creates no iterator and leaves currentTime and the outgoing messages alone
StartPlayHandsOver ==
  [][state = "start-play" /\ pc = "dispatch" /\ seekTarget # None
       => /\ nextState' = "seek-backfill" /\ pc' = "loop"
          /\ UNCHANGED << playbackIterator, currentTime, messages >>]_vars

C36_ListenerNeverOverlaps ==
  /\ pipeline.did # "throw"
  /\ pipeline.pending <= 1
  /\ pipeline.resolveFn => alias.locked /\ pipeline.pending = 1

\* setGlobalVariables has changed the alias mapping of a paused player while the
\* listener waits for the render of the previous state: the re-emission was
\* dropped at the gate and the listener was not called
C36_Witness ==
  /\ {"setGlobalVariables", "resetSubscriptions", "dropped"} \subseteq alias.did
  /\ ~alias.lastPlayerState.playing
  /\ pipeline.resolveFn /\ pipeline.pending = 1 /\ pipeline.did = ""

\* C37 (as claimed): every promise the listener returns is eventually resolved:
\* once the layout effect has called renderDone for the pending call, or once
\* cleanupListener has been called, no promise of the listener stays pending.
C37_ListenerPromiseResolves ==
  (pipeline.pending > 0 /\ (pipeline.called \/ pipeline.closed))
    ~> (pipeline.pending = 0)

\* C38 (as claimed): each batch of messages the wrapped player emits is
\* dispatched to the store at most once, also when setGlobalVariables
\* re-processes the remembered last state.
C38_BatchAtMostOnce == \A b \in 1..MaxBatches : pipeline.got[b] <= 1

\* C39 (as claimed): while no alias functions are installed (#skipAliasing),
\* TopicAliasingPlayer passes through in both directions: the listener is
\* called with the object the wrapped player emitted, and setSubscriptions
\* forwards to the wrapped player the subscriptions it was given, also once
\* alias functions that were installed and used have been removed.
C39_Passthrough ==
  /\ [][alias.skipAliasing /\ "listener" \in alias'.did => alias'.out.same]_vars
  /\ [][alias.skipAliasing /\ "setSubscriptions" \in alias'.did
          => alias'.aliasedSubscriptions = alias'.subscriptions]_vars

\* the positions of list whose record matches none before it
Firsts(list) ==
  { i \in 1..Len(list) : \A j \in 1..(i - 1) : list[j].key # list[i].key }

\* the records of list that match none before them, in their order, up to
\* MaxEntries of them
FirstsOf(list) ==
  LET F == Firsts(list)
  IN [k \in 1..Min(Cardinality(F), MaxEntries) |->
        list[CHOOSE i \in F : Cardinality({ j \in F : j < i }) = k - 1]]

====
